---- MODULE Spec2Model ----
(***************************************************************************)
(* Financial_Data_Platform: the series normalizer (clean_data), the        *)
(* indicator engine (calculate_metrics, RSI, MACD, Bollinger) and the      *)
(* multi-source fallback resolver (DataService.get_stock_data).            *)
(*                                                                         *)
(* Numbers.  Prices are integers (currency units).  daily_return and       *)
(* volatility are carried in units of 1e-4 percent, ma7/ma30, momentum and  *)
(* every 2-decimal result in units of 1e-2.  A missing value (pandas NaN)  *)
(* is the cell value NaN.  A timestamp is day * TicksPerDay + tick; a      *)
(* calendar date is the timestamp of its midnight (tick 0).                *)
(***************************************************************************)
EXTENDS Integers, Sequences, FiniteSets, TLC

VARIABLES
    \* ---- fallback resolver (DataService) ----
    api_key,            \* the environment's ALPHA_VANTAGE_API_KEY at construction
    use_alpha_vantage,  \* DataService.use_alpha_vantage
    days,               \* the lookback of the call in progress
    pc,                 \* position inside get_stock_data
    calls,              \* the sources invoked so far, in order
    yielded,            \* what each invoked source produced
    result,             \* what get_stock_data returned
    open_sessions,      \* database sessions opened and not closed
    slept,              \* seconds spent in time.sleep
    \* ---- series normalizer / indicator engine ----
    collector,          \* which collector's clean_data / calculate_metrics
    raw,                \* the frame handed to the first clean_data
    frame,              \* the outcome of the latest clean_data
    hist,               \* outcomes of clean_data applied 1, 2, ... times
    derived,            \* the outcome of calculate_metrics
    passed,             \* the caller's frame before / after the latest clean_data
    \* ---- technical signals ----
    stock_data,         \* the rows the /technicals query returned
    tech,               \* the latest technical-signal result
    \* ---- persisted store and HTTP query surface ----
    today,              \* datetime.now().date() of the running process
    table,              \* the rows of the stock_data table, in insertion order
    companies,          \* the symbols of the companies table, in query order
    queries,            \* database / resolver calls made by route handlers
    reply               \* the latest HTTP reply

rvars == <<api_key, use_alpha_vantage, days, pc, calls, yielded, result, open_sessions, slept>>
nvars == <<collector, raw, frame, hist, derived, passed>>
tvars == <<stock_data, tech>>
avars == <<today, table, companies, queries, reply>>
vars == <<rvars, nvars, tvars, avars>>

(***************************************************************************)
(* Bounds of the model.                                                    *)
(***************************************************************************)
MaxLen == 3          \* rows of a raw frame handed to clean_data
MaxApply == 4        \* how many times clean_data is re-applied to its output
TicksPerDay == 2     \* time-of-day slots of a timestamp
MaxDays == 3         \* largest lookback `days` of a get_stock_data call
MaxBars == 3         \* bars a source may deliver to the resolver
MaxSeries == 32      \* bars of a normalized series given to the indicators

NaN == -1

DC == "yfinance"         \* DataCollector
AV == "alpha_vantage"    \* AlphaVantageCollector

(***************************************************************************)
(* DataFrames.  index_name "" is pandas' unnamed index.                    *)
(***************************************************************************)
Range(s) == {s[i] : i \in DOMAIN s}

RangeIndex(n) == [i \in 1..n |-> i - 1]

MkFrame(name, idx, cols, rows) ==
    [index_name |-> name, index |-> idx, columns |-> cols, rows |-> rows]

\* pd.DataFrame()
EmptyFrame == MkFrame("", <<>>, <<>>, <<>>)

\* df.empty: some axis has length 0
IsEmpty(df) == Len(df.rows) = 0 \/ Len(df.columns) = 0

Frame(df) == [kind |-> "frame", df |-> df]
Raised == [kind |-> "raise", df |-> EmptyFrame]
NoneValue == [kind |-> "none", df |-> EmptyFrame]

\* columns.str.lower()
Lower(c) ==
    CASE c = "Date" -> "date"
      [] c = "Open" -> "open"
      [] c = "High" -> "high"
      [] c = "Low" -> "low"
      [] c = "Close" -> "close"
      [] c = "Volume" -> "volume"
      [] OTHER -> c

\* pd.to_datetime(col).dt.date: the calendar date of a timestamp
ToDate(ts) == ts - (ts % TicksPerDay)

Column(rows, c) == [i \in 1..Len(rows) |-> rows[i][c]]

FFillCol(vals) ==
    LET f[i \in 0..Len(vals)] ==
            IF i = 0 THEN NaN
            ELSE IF vals[i] # NaN THEN vals[i] ELSE f[i - 1]
    IN  [i \in 1..Len(vals) |-> f[i]]

BFillCol(vals) ==
    LET n == Len(vals)
        f[k \in 0..n] ==   \* k = distance from the end
            IF k = 0 THEN NaN
            ELSE IF vals[n - k + 1] # NaN THEN vals[n - k + 1] ELSE f[k - 1]
    IN  [i \in 1..n |-> f[n - i + 1]]

FromColumns(cols, n, byCol) == [i \in 1..n |-> [c \in cols |-> byCol[c][i]]]

\* df.ffill(inplace=True)
ffill(cols, rows) ==
    FromColumns(cols, Len(rows), [c \in cols |-> FFillCol(Column(rows, c))])

\* df.bfill(inplace=True)
bfill(cols, rows) ==
    FromColumns(cols, Len(rows), [c \in cols |-> BFillCol(Column(rows, c))])

\* df.dropna(inplace=True)
dropna(cols, rows) == SelectSeq(rows, LAMBDA r : \A c \in cols : r[c] # NaN)

KeepAt(rows, keep) ==
    LET f[i \in 0..Len(rows)] ==
            IF i = 0 THEN <<>>
            ELSE IF keep[i] THEN Append(f[i - 1], rows[i]) ELSE f[i - 1]
    IN  f[Len(rows)]

DropDuplicatesKeepFirst(rows) ==
    KeepAt(rows, [i \in 1..Len(rows) |->
                    \A j \in 1..Len(rows) : j < i => rows[j].date # rows[i].date])

\* df.drop_duplicates(subset=['date'], keep='last', inplace=True)
drop_duplicates(rows) ==
    KeepAt(rows, [i \in 1..Len(rows) |->
                    \A j \in 1..Len(rows) : j > i => rows[j].date # rows[i].date])

Perms(n) == {p \in [1..n -> 1..n] : \A i, j \in 1..n : i # j => p[i] # p[j]}

\* df.sort_values('date', inplace=True): the default sort is not stable, so
\* every ascending arrangement is a possible outcome.
sort_values(rows) ==
    LET n == Len(rows)
    IN  {[i \in 1..n |-> rows[p[i]]] :
            p \in {q \in Perms(n) :
                     \A i, j \in 1..n : i < j => rows[q[i]].date <= rows[q[j]].date}}

\* df.reset_index(inplace=True): the name of the column the index becomes
\* ("" when pandas raises ValueError: cannot insert ..., already exists)
IndexColumn(df) ==
    LET have == Range(df.columns)
    IN  IF df.index_name # ""
        THEN IF df.index_name \in have THEN "" ELSE df.index_name
        ELSE IF "index" \notin have THEN "index"
        ELSE IF "level_0" \notin have THEN "level_0"
        ELSE ""

\* df.reset_index(inplace=True)
reset_index(df) ==
    LET c == IndexColumn(df)
        cols == <<c>> \o df.columns
        n == Len(df.rows)
    IN  MkFrame("", RangeIndex(n), cols,
                [i \in 1..n |-> [k \in Range(cols) |->
                    IF k = c THEN df.index[i] ELSE df.rows[i][k]]])

\* df.columns = df.columns.str.lower()
lower_columns(df) ==
    LET cols == [i \in 1..Len(df.columns) |-> Lower(df.columns[i])]
        n == Len(df.rows)
    IN  MkFrame(df.index_name, df.index, cols,
                [i \in 1..n |-> [k \in Range(cols) |->
                    df.rows[i][CHOOSE c \in Range(df.columns) : Lower(c) = k]]])

WithRows(df, rows) == MkFrame("", RangeIndex(Len(rows)), df.columns, rows)

\* AlphaVantageCollector.clean_data: the set of possible outcomes
clean_data_av(df) ==
    IF IsEmpty(df) THEN {Frame(EmptyFrame)}
    ELSE IF "date" \notin Range(df.columns) THEN {Raised}
    ELSE LET cols == Range(df.columns)
             filled == dropna(cols, bfill(cols, ffill(cols, df.rows)))
         IN  {Frame(WithRows(df, s)) : s \in sort_values(drop_duplicates(filled))}

\* DataCollector.clean_data: the set of possible outcomes
clean_data_dc(df) ==
    IF IsEmpty(df) THEN {Frame(EmptyFrame)}
    ELSE IF IndexColumn(df) = "" THEN {Raised}
    ELSE LET d == lower_columns(reset_index(df))
             cols == Range(d.columns)
             filled == dropna(cols, bfill(cols, ffill(cols, d.rows)))
         IN  IF "date" \notin cols THEN {Raised}
             ELSE LET dedup == drop_duplicates(filled)
                      dated == [i \in 1..Len(dedup) |->
                                  [dedup[i] EXCEPT !.date = ToDate(@)]]
                  IN  {Frame(WithRows(d, s)) : s \in sort_values(dated)}

clean_data(which, df) == IF which = AV THEN clean_data_av(df) ELSE clean_data_dc(df)

\* `if df is None or df.empty: return pd.DataFrame()`, then the body
CleanDataCall(which, arg) ==
    IF arg.kind = "none" THEN {Frame(EmptyFrame)} ELSE clean_data(which, arg.df)

CopyAliases(df) == [object |-> "argument", df |-> df]

\* df.copy(): a new object holding the same bars; the local name df is
\* rebound to it
copy(df) == [object |-> "copy", df |-> df]

\* The caller's frame after clean_data(df) returned o.  Every statement after
\* `df = df.copy()` works in place on the object the local name is bound to,
\* and that object is the one returned.
ArgumentAfter(df, o) ==
    IF IsEmpty(df) \/ o.kind # "frame" THEN df
    ELSE IF copy(df).object = "argument" THEN o.df
    ELSE df

(***************************************************************************)
(* Indicator engine: calculate_metrics (both collectors share the code).   *)
(***************************************************************************)
Abs(x) == IF x < 0 THEN -x ELSE x

Min(a, b) == IF a < b THEN a ELSE b

Max(a, b) == IF a > b THEN a ELSE b

\* round(a / b) for b > 0, ties to the even neighbour (numpy / Python round)
RoundDiv(a, b) ==
    LET q == a \div b
        r == a - q * b
    IN  IF 2 * r < b THEN q
        ELSE IF 2 * r > b THEN q + 1
        ELSE IF q % 2 = 0 THEN q ELSE q + 1

Sum(s) ==
    LET f[i \in 0..Len(s)] == IF i = 0 THEN 0 ELSE f[i - 1] + s[i]
    IN  f[Len(s)]

\* floor(sqrt(v)) for v >= 0
ISqrt(v) ==
    LET f[lo \in 0..v + 1, hi \in 0..v + 1] ==
            IF hi - lo <= 1 THEN lo
            ELSE LET mid == (lo + hi) \div 2
                 IN  IF mid <= v \div mid THEN f[mid, hi] ELSE f[lo, mid]
    IN  IF v <= 1 THEN v ELSE f[1, v]

\* the observations rolling(window, min_periods=1) sees at row i
Window(vals, i, window) == SubSeq(vals, Max(1, i - window + 1), i)

\* rolling(window, min_periods=1).mean().round(2), in units of 1e-2
RollingMean(vals, i, window) ==
    LET w == Window(vals, i, window) IN RoundDiv(Sum(w) * 100, Len(w))

\* Series.std() (ddof = 1) of observations given in units of 1e-4: NaN for a
\* single observation.  The value is carried to 1e-2 (observations rounded
\* to 1e-2 first), which keeps the squares inside TLC's integers.
SampleStd(w) ==
    LET n == Len(w)
        x == [i \in 1..n |-> RoundDiv(w[i], 100)]
        sq == [i \in 1..n |-> (x[i] - x[1]) * (x[i] - x[1])]
        d == [i \in 1..n |-> x[i] - x[1]]
        V == n * Sum(sq) - Sum(d) * Sum(d)
    IN  IF n < 2 THEN NaN
        ELSE 100 * ((ISqrt((4 * V) \div (n * (n - 1))) + 1) \div 2)

\* rolling(window, min_periods=1).std().round(4)
RollingStd(vals, i, window) == SampleStd(Window(vals, i, window))

\* ((close - open) / open * 100).round(4), in units of 1e-4
DailyReturn(open, close) ==
    IF open = 0 THEN NaN ELSE RoundDiv((close - open) * 1000000, open)

\* ((close - ma30) / ma30 * 100).round(2), ma30 and the result in units of 1e-2
MomentumScore(close, ma30) ==
    IF ma30 = 0 THEN NaN ELSE RoundDiv((close * 100 - ma30) * 10000, ma30)

\* ((volume - avg_volume) / avg_volume * 100).round(2), in units of 1e-2
VolumeTrend(vols, i) ==
    LET w == Window(vols, i, 20)
    IN  IF Sum(w) = 0 THEN NaN
        ELSE RoundDiv((vols[i] * Len(w) - Sum(w)) * 10000, Sum(w))

MetricColumns ==
    <<"daily_return", "ma7", "ma30", "volatility", "momentum_score", "volume_trend">>

\* calculate_metrics of DataCollector and of AlphaVantageCollector
calculate_metrics(df) ==
    IF IsEmpty(df) THEN Frame(df)
    ELSE IF ~({"open", "close", "volume"} \subseteq Range(df.columns)) THEN Raised
    ELSE LET n == Len(df.rows)
             old == Range(df.columns)
             close == Column(df.rows, "close")
             vols == Column(df.rows, "volume")
             ret == [i \in 1..n |-> DailyReturn(df.rows[i].open, df.rows[i].close)]
             ma30 == [i \in 1..n |-> RollingMean(close, i, 30)]
             new == [i \in 1..n |->
                        [daily_return |-> ret[i],
                         ma7 |-> RollingMean(close, i, 7),
                         ma30 |-> ma30[i],
                         volatility |-> RollingStd(ret, i, 20),
                         momentum_score |-> MomentumScore(close[i], ma30[i]),
                         volume_trend |-> VolumeTrend(vols, i)]]
             cols == df.columns \o SelectSeq(MetricColumns, LAMBDA c : c \notin old)
         IN  Frame(MkFrame(df.index_name, df.index, cols,
                [i \in 1..n |-> [c \in Range(cols) |->
                    IF c \in Range(MetricColumns) THEN new[i][c] ELSE df.rows[i][c]]]))

(***************************************************************************)
(* Raw frames.  A yfinance frame is indexed by the timestamp ("Date") and  *)
(* has capitalised columns; fetch_daily_data delivers a frame with a       *)
(* RangeIndex and a `date` column of calendar dates.                       *)
(***************************************************************************)
Stamp(day, tick) == day * TicksPerDay + tick

Stamps == {Stamp(1, 0), Stamp(1, 1), Stamp(2, 0)}

Quote(o, h, l, c, v) == [open |-> o, high |-> h, low |-> l, close |-> c, volume |-> v]

Quotes ==
    {Quote(100, 102, 99, 101, 1000),
     Quote(NaN, NaN, NaN, 105, NaN),
     Quote(101, 103, 100, 102, 1200)}

Bars == [stamp : Stamps, quote : Quotes]

BarSeqs == UNION {[1..n -> Bars] : n \in 0..MaxLen}

YfColumns == <<"Open", "High", "Low", "Close", "Volume">>

AvColumns == <<"date", "open", "high", "low", "close", "volume">>

\* ticker.history(...): what DataCollector.clean_data is handed
YfFrame(bars) ==
    LET n == Len(bars)
    IN  MkFrame("Date", [i \in 1..n |-> bars[i].stamp], YfColumns,
            [i \in 1..n |->
                [Open |-> bars[i].quote.open, High |-> bars[i].quote.high,
                 Low |-> bars[i].quote.low, Close |-> bars[i].quote.close,
                 Volume |-> bars[i].quote.volume]])

\* a frame of the shape fetch_daily_data builds, which is what
\* AlphaVantageCollector.clean_data is handed: a RangeIndex and a `date`
\* column of calendar dates
AvFrame(bars) ==
    LET n == Len(bars)
    IN  MkFrame("", RangeIndex(n), AvColumns,
            [i \in 1..n |->
                [date |-> ToDate(bars[i].stamp),
                 open |-> bars[i].quote.open, high |-> bars[i].quote.high,
                 low |-> bars[i].quote.low, close |-> bars[i].quote.close,
                 volume |-> bars[i].quote.volume]])

RawFrame(which, bars) == IF which = AV THEN AvFrame(bars) ELSE YfFrame(bars)

(***************************************************************************)
(* The normalize-then-derive pipeline as a state machine: clean_data is    *)
(* applied to a raw frame, then again to its own output; calculate_metrics *)
(* derives the indicator columns of the cleaned frame.                     *)
(***************************************************************************)
NoTech == [op |-> "none"]

\* os.getenv('ALPHA_VANTAGE_API_KEY'): unset, empty, the placeholder, a key
Unset == "(unset)"
Placeholder == "YOUR_API_KEY_HERE"
ApiKeys == {Unset, "", Placeholder, "demo"}

EnabledUnlessUnset(key) == key # Unset

\* DataService.__init__: os.getenv(...) not in [None, '', 'YOUR_API_KEY_HERE']
Enabled(key) == key \notin {Unset, "", Placeholder}

ResolverIdle ==
    /\ api_key = Unset
    /\ use_alpha_vantage = FALSE
    /\ days = 0
    /\ pc = "idle"
    /\ calls = <<>>
    /\ yielded = <<>>
    /\ result = [status |-> "pending"]
    /\ open_sessions = 0
    /\ slept = 0

NoCall == [called |-> FALSE]

NormalizerIdle ==
    /\ collector = AV
    /\ raw = EmptyFrame
    /\ frame = NoneValue
    /\ hist = <<>>
    /\ derived = NoneValue
    /\ passed = NoCall

TechnicalsIdle ==
    /\ stock_data = <<>>
    /\ tech = NoTech

NoReply == [route |-> "none"]

ApiIdle ==
    /\ today = 0
    /\ table = <<>>
    /\ companies = <<>>
    /\ queries = 0
    /\ reply = NoReply

\* the caller holds a raw frame, or None
InitNormalizer ==
    /\ ResolverIdle
    /\ TechnicalsIdle
    /\ ApiIdle
    /\ collector \in {DC, AV}
    /\ raw \in {RawFrame(collector, b) : b \in BarSeqs}
    /\ frame \in {Frame(raw)} \cup (IF raw.rows = <<>> THEN {NoneValue} ELSE {})
    /\ hist = <<>>
    /\ derived = NoneValue
    /\ passed = NoCall

\* clean_data(df), df the raw frame or the previous clean_data's output
CleanData ==
    /\ Len(hist) < MaxApply
    /\ frame.kind \in {"frame", "none"}
    /\ derived.kind = "none"
    /\ \E o \in CleanDataCall(collector, frame) :
          /\ frame' = o
          /\ hist' = Append(hist, o)
          /\ passed' = [called |-> TRUE, none |-> frame.kind = "none",
                        before |-> frame.df, after |-> ArgumentAfter(frame.df, o)]
    /\ UNCHANGED <<collector, raw, derived, rvars, tvars, avars>>

\* calculate_metrics(clean_df), as process_stock calls it
CalculateMetrics ==
    /\ Len(hist) >= 1
    /\ frame.kind = "frame"
    /\ derived.kind = "none"
    /\ derived' = calculate_metrics(frame.df)
    /\ UNCHANGED <<collector, raw, frame, hist, passed, rvars, tvars, avars>>

NextNormalizer == CleanData \/ CalculateMetrics

SpecNormalizer == InitNormalizer /\ [][NextNormalizer]_vars

(***************************************************************************)
(* Claims about the normalizer (checked under SpecNormalizer).             *)
(***************************************************************************)
Cleaned(k) == hist[k].kind = "frame"

Dates(df) == Column(df.rows, "date")

StrictlyAscending(ds) == \A i, j \in 1..Len(ds) : i < j => ds[i] < ds[j]

OneBarPerCalendarDate(ds) ==
    \A i, j \in 1..Len(ds) : i # j => ToDate(ds[i]) # ToDate(ds[j])

\* the raw frame has a bar with every field present after the fill
HasCompleteBar(df) ==
    LET cols == Range(df.columns)
    IN  dropna(cols, bfill(cols, ffill(cols, df.rows))) # <<>>

\* C5: the normalizer is idempotent: applying clean_data to its own output,
\* any number of times, returns the same frame (same bars, same order, same
\* columns) and never raises, in both collectors.
C5_Idempotent ==
    \A k \in 2..Len(hist) : Cleaned(k) /\ hist[k] = hist[1]

\* C6: for a raw input with at least one complete bar after the fill, the
\* output of clean_data is strictly ascending by date with no two bars on
\* the same calendar date, in both collectors.
C6_StrictlyAscending ==
    (Len(hist) >= 1 /\ HasCompleteBar(raw)) =>
        /\ Cleaned(1)
        /\ StrictlyAscending(Dates(hist[1].df))
        /\ OneBarPerCalendarDate(Dates(hist[1].df))

\* a raw frame with two timestamps on one calendar date has been cleaned
C6_SameDayCase ==
    /\ Len(hist) >= 1
    /\ HasCompleteBar(raw)
    /\ collector = DC
    /\ \E i, j \in 1..Len(raw.index) :
          raw.index[i] # raw.index[j] /\ ToDate(raw.index[i]) = ToDate(raw.index[j])

\* the end-to-end scenario of the pipeline: d1, a later close-only duplicate
\* of d1, then d2
ScenarioBars ==
    <<[stamp |-> Stamp(1, 0), quote |-> Quote(100, 102, 99, 101, 1000)],
      [stamp |-> Stamp(1, 0), quote |-> Quote(NaN, NaN, NaN, 105, NaN)],
      [stamp |-> Stamp(2, 0), quote |-> Quote(101, 103, 100, 102, 1200)]>>

PriceFields == {"open", "high", "low", "close", "volume"}

\* the date key of raw row i, as the collector's clean_data sees it
RawKey(i) == IF "date" \in Range(raw.columns) THEN raw.rows[i].date ELSE raw.index[i]

RawCell(i, c) == raw.rows[i][CHOOSE k \in Range(raw.columns) : Lower(k) = c]

\* the value of field c at raw row i once gaps are filled: the nearest value
\* at or before i, else the nearest after it
LastKnown(i, c) ==
    LET n == Len(raw.rows)
        before == {j \in 1..i : RawCell(j, c) # NaN}
        after == {j \in i..n : RawCell(j, c) # NaN}
    IN  IF before # {} THEN RawCell(CHOOSE j \in before : \A k \in before : k <= j, c)
        ELSE IF after # {} THEN RawCell(CHOOSE j \in after : \A k \in after : j <= k, c)
        ELSE NaN

\* the raw rows that are the last of their date key
LastOfKey == {i \in 1..Len(raw.rows) : \A j \in 1..Len(raw.rows) : j > i => RawKey(j) # RawKey(i)}

Pipeline == Len(hist) = 1 /\ derived.kind # "none"

EveryBarDropped(df) ==
    /\ Len(df.rows) > 0
    /\ \E c \in Range(df.columns) : \A i \in 1..Len(df.rows) : df.rows[i][c] = NaN

\* C15: clean_data returns an empty series, without raising, when its input
\* is None or empty or when every bar is dropped for a missing field, and
\* the frame the caller passed is the same after the call as before.
C15_EmptyNotErrorAndInputKept ==
    passed.called =>
        /\ passed.after = passed.before
        /\ (passed.none \/ IsEmpty(passed.before) \/ EveryBarDropped(passed.before)) =>
              frame.kind = "frame" /\ IsEmpty(frame.df)

\* clean_data has dropped every bar of a frame it changed on its copy
C15_AllBarsDropped ==
    /\ passed.called
    /\ EveryBarDropped(passed.before)
    /\ frame.kind = "frame"
    /\ frame.df # passed.before

\* the calendar date of raw row i
RawDate(i) == ToDate(RawKey(i))

\* the last raw row, in arrival order, of the calendar date of row i
LastOfDate(i) ==
    CHOOSE j \in 1..Len(raw.rows) :
        /\ RawDate(j) = RawDate(i)
        /\ \A k \in 1..Len(raw.rows) : RawDate(k) = RawDate(i) => k <= j

\* C19: for every date of the raw series clean_data keeps exactly one bar,
\* the one that arrived last for that date, whatever the bars' values.
C19_LastArrivalKept ==
    (Len(hist) >= 1 /\ HasCompleteBar(raw)) =>
        /\ hist[1].kind = "frame"
        /\ \A i \in 1..Len(raw.rows) :
              LET out == hist[1].df.rows
                  kept == {k \in 1..Len(out) : out[k].date = RawDate(i)}
              IN  /\ Cardinality(kept) = 1
                  /\ \A k \in kept, c \in PriceFields : out[k][c] = LastKnown(LastOfDate(i), c)

\* ((close - ma30) / ma30 * 100) to 4 decimals, in units of 1e-4
MomentumTo4(close, ma30) == RoundDiv((close * 100 - ma30) * 1000000, ma30)

\* ((volume - avg_volume) / avg_volume * 100) to 4 decimals, in units of 1e-4
VolumeTrendTo4(vols, i) ==
    LET w == Window(vols, i, 20)
    IN  RoundDiv((vols[i] * Len(w) - Sum(w)) * 1000000, Sum(w))

\* C28: calculate_metrics rounds momentum_score and volume_trend (like
\* daily_return and volatility) to 4 decimal places: the stored value, kept
\* in units of 1e-2, is the quotient rounded at the fourth decimal.
C28_FourDecimals ==
    derived.kind = "frame" =>
        \A i \in 1..Len(derived.df.rows) :
            LET r == derived.df.rows[i]
                vols == Column(derived.df.rows, "volume")
            IN  /\ r.momentum_score # NaN =>
                      100 * r.momentum_score = MomentumTo4(r.close, r.ma30)
                /\ r.volume_trend # NaN =>
                      100 * r.volume_trend = VolumeTrendTo4(vols, i)

(***************************************************************************)
(* Technical signals: utils/calculations.py and the /technicals route.     *)
(* Results are in units of 1e-2 (the code rounds them to 2 decimals).      *)
(***************************************************************************)
Last(s, k) == SubSeq(s, Max(1, Len(s) - k + 1), Len(s))

Diff(prices) == [i \in 1..Len(prices) - 1 |-> prices[i + 1] - prices[i]]

Positive(s) == SelectSeq(s, LAMBDA x : x > 0)

Negative(s) == SelectSeq(s, LAMBDA x : x < 0)

\* round(100 * 100 * N / D) for 0 <= N <= D, D > 0, by long division
Percent(N, D) ==
    LET q == (100 * N) \div D
        r == (100 * N) % D
    IN  100 * q + RoundDiv(100 * r, D)

CalculateRsiNoPlusOne(prices, period) ==
    LET deltas == Last(Diff(prices), period)
        G == Sum(Positive(deltas))
        L == -Sum(Negative(deltas))
    IN  IF Len(prices) < period THEN 5000
        ELSE IF L = 0 THEN 10000
        ELSE Percent(G, G + L)

\* calculate_rsi(prices, period)
calculate_rsi(prices, period) ==
    LET deltas == Last(Diff(prices), period)
        G == Sum(Positive(deltas))
        L == -Sum(Negative(deltas))
    IN  IF Len(prices) < period + 1 THEN 5000
        ELSE IF L = 0 THEN 10000
        ELSE Percent(G, G + L)

RouteRsiSharedConvention(returns) ==
    LET w == Last(returns, 14)
        g == Len(Positive(w))
        l == Len(Negative(w))
        G == Sum(Positive(w))
        L == -Sum(Negative(w))
    IN  IF Len(returns) > 14
        THEN IF l = 0 THEN 10000
             ELSE IF g = 0 THEN 0
             ELSE Percent(G * l, g * L + G * l)
        ELSE 5000

\* the RSI block of get_technical_indicators; returns holds the rows'
\* daily_return values that are truthy (non-zero)
route_rsi(returns) ==
    LET w == Last(returns, 14)
        g == Len(Positive(w))
        l == Len(Negative(w))
        G == Sum(Positive(w))
        L == -Sum(Negative(w))
    IN  IF Len(returns) > 14
        THEN IF l = 0 THEN 9901          \* rs = 100: round(100 - 100 / 101, 2)
             ELSE IF g = 0 THEN 0        \* rs = 0
             ELSE Percent(G * l, g * L + G * l)
        ELSE 5000

\* Series.ewm(span=span, adjust=False).mean(), in units of 1e-4; vals are in
\* units of 1e-4 too
Ewm(vals, span) ==
    LET f[i \in 1..Len(vals)] ==
            IF i = 1 THEN vals[1]
            ELSE RoundDiv(2 * vals[i] + (span - 1) * f[i - 1], span + 1)
    IN  [i \in 1..Len(vals) |-> f[i]]

ZeroMacd == [macd_line |-> 0, signal_line |-> 0, histogram |-> 0]

RealMacd(prices, fast, slow, signal) ==
    LET n == Len(prices)
        p == [i \in 1..n |-> prices[i] * 10000]
        ema_fast == Ewm(p, fast)
        ema_slow == Ewm(p, slow)
        macd_line == [i \in 1..n |-> ema_fast[i] - ema_slow[i]]
        signal_line == Ewm(macd_line, signal)
    IN  [macd_line |-> RoundDiv(macd_line[n], 100),
         signal_line |-> RoundDiv(signal_line[n], 100),
         histogram |-> RoundDiv(macd_line[n] - signal_line[n], 100)]

\* calculate_macd(prices, fast, slow, signal)
calculate_macd(prices, fast, slow, signal) ==
    IF Len(prices) < slow THEN ZeroMacd ELSE RealMacd(prices, fast, slow, signal)

\* the two trailing means the route calls ema12 and ema26, and their
\* difference rounded to 2 decimals
RouteMacdValue(prices) ==
    RoundDiv((13 * Sum(Last(prices, 12)) - 6 * Sum(Last(prices, 26))) * 100, 156)

\* the MACD block of get_technical_indicators
route_macd(prices) ==
    [macd_line |-> IF Len(prices) > 26 THEN RouteMacdValue(prices) ELSE 0,
     signal_line |-> 0,
     histogram |-> 0]

ZeroBands == [upper_band |-> 0, middle_band |-> 0, lower_band |-> 0]

\* np.mean / np.std (ddof = 0) of the trailing `period` prices
RealBands(prices, period, num_std) ==
    LET w == Last(prices, period)
        n == Len(w)
        d == [i \in 1..n |-> w[i] - w[1]]
        sq == [i \in 1..n |-> d[i] * d[i]]
        V == n * Sum(sq) - Sum(d) * Sum(d)      \* (n * std) ^ 2
        s == ISqrt(V * 10000)                   \* 100 * n * std
    IN  [upper_band |-> RoundDiv(100 * Sum(w) + num_std * s, n),
         middle_band |-> RoundDiv(100 * Sum(w), n),
         lower_band |-> RoundDiv(100 * Sum(w) - num_std * s, n),
         current_price |-> 100 * prices[Len(prices)]]

\* calculate_bollinger_bands(prices, period, num_std)
calculate_bollinger_bands(prices, period, num_std) ==
    IF Len(prices) < period THEN ZeroBands ELSE RealBands(prices, period, num_std)

\* sorted(vals)
Insert(t, x) ==
    LET k == Cardinality({j \in 1..Len(t) : t[j] <= x})
    IN  SubSeq(t, 1, k) \o <<x>> \o SubSeq(t, k + 1, Len(t))
SortAsc(vals) ==
    LET f[i \in 0..Len(vals)] == IF i = 0 THEN <<>> ELSE Insert(f[i - 1], vals[i])
    IN  f[Len(vals)]

\* round(np.percentile(vals, q), 2) for whole prices, in units of 1e-2:
\* linear interpolation between the two order statistics around (n - 1) * q / 100
Percentile(vals, q) ==
    LET s == SortAsc(vals)
        k == (Len(vals) - 1) * q
        lo == k \div 100
        fr == k % 100
    IN  100 * s[lo + 1] + (IF fr = 0 THEN 0 ELSE fr * (s[lo + 2] - s[lo + 1]))

\* the levels of the trailing `window` observations
RealLevels(highs, lows, window) ==
    [resistance |-> Percentile(Last(highs, window), 95),
     support |-> Percentile(Last(lows, window), 5)]

\* calculate_support_resistance(highs, lows, window)
calculate_support_resistance(highs, lows, window) ==
    IF Len(highs) < window \/ Len(lows) < window
    THEN [resistance |-> 0, support |-> 0]
    ELSE RealLevels(highs, lows, window)

MinOf(vals) == CHOOSE x \in Range(vals) : \A y \in Range(vals) : x <= y
MaxOf(vals) == CHOOSE x \in Range(vals) : \A y \in Range(vals) : x >= y

\* the support / resistance lines of get_technical_indicators
route_support_resistance(highs, lows) ==
    [support |-> 100 * (IF Len(lows) >= 20 THEN MinOf(Last(lows, 20)) ELSE MinOf(lows)),
     resistance |-> 100 * (IF Len(highs) >= 20 THEN MaxOf(Last(highs, 20))
                           ELSE MaxOf(highs))]

\* stats.linregress over x = 0..n-1 evaluated at x = n, rounded to 2
\* decimals: mean + slope * (n + 1) / 2 over the common denominator n(n - 1)
LinearNext(prices) ==
    LET n == Len(prices)
        w == [i \in 1..n |-> (n - 1 + 3 * (2 * (i - 1) - (n - 1))) * prices[i]]
    IN  RoundDiv(100 * Sum(w), n * (n - 1))

Methods == {"linear", "ma", "ema", "other"}

\* what predict_next_price computes from 10 observations on
MethodNext(prices, method) ==
    CASE method = "linear" -> LinearNext(prices)
      [] method = "ma" -> RoundDiv(100 * Sum(Last(prices, 10)), 10)
      [] method = "ema" ->
            RoundDiv(Ewm([i \in 1..Len(prices) |-> 10000 * prices[i]], 10)[Len(prices)],
                     100)
      [] OTHER -> 100 * prices[Len(prices)]

\* predict_next_price(prices, method)
predict_next_price(prices, method) ==
    IF Len(prices) < 10
    THEN (IF prices = <<>> THEN 0 ELSE 100 * prices[Len(prices)])
    ELSE MethodNext(prices, method)

\* prices[-1] + (prices[-1] - prices[-10]) / 10, rounded to 2 decimals
RouteTrendNext(prices) ==
    LET n == Len(prices) IN 100 * prices[n] + 10 * (prices[n] - prices[n - 9])

\* the prediction block of get_technical_indicators
route_prediction(prices) ==
    IF Len(prices) > 10 THEN RouteTrendNext(prices) ELSE 100 * prices[Len(prices)]

(***************************************************************************)
(* Normalized series for the indicators, one bar per day: bars of one      *)
(* quote followed by a tail of `k` bars of another.                        *)
(***************************************************************************)
Flat == Quote(100, 101, 99, 100, 1000)
Up == Quote(100, 103, 99, 102, 1200)
Down == Quote(100, 101, 97, 98, 900)

SeriesQuotes == {Flat, Up, Down}

TailLengths == {0, 1, 12}

SeriesRows(n, k, q1, q2) ==
    [i \in 1..n |->
        LET q == IF i <= n - k THEN q1 ELSE q2
        IN  [date |-> Stamp(i, 0), open |-> q.open, high |-> q.high,
             low |-> q.low, close |-> q.close, volume |-> q.volume]]

SeriesFrames ==
    {MkFrame("", RangeIndex(n), AvColumns, SeriesRows(n, k, q1, q2)) :
        n \in 0..MaxSeries, k \in TailLengths, q1 \in SeriesQuotes, q2 \in SeriesQuotes}

InitIndicators ==
    /\ ResolverIdle
    /\ collector \in {DC, AV}
    /\ raw \in SeriesFrames
    /\ frame = Frame(raw)
    /\ hist = <<Frame(raw)>>      \* the series is a cleaned frame
    /\ derived = NoneValue
    /\ passed = NoCall
    /\ TechnicalsIdle
    /\ ApiIdle

\* the insert loop of populate_stock_data: the rows of the processed frame
PopulateStockData ==
    /\ derived.kind = "frame"
    /\ stock_data = <<>>
    /\ derived.df.rows # <<>>
    /\ stock_data' = derived.df.rows
    /\ UNCHANGED <<tech, nvars, rvars, avars>>

Closes == Column(stock_data, "close")

\* GET /technicals/{symbol} over the queried rows
GetTechnicalIndicators ==
    /\ stock_data # <<>>
    /\ tech = NoTech
    /\ LET returns == SelectSeq(Column(stock_data, "daily_return"), LAMBDA r : r # 0)
       IN  tech' = [op |-> "technicals",
                    rsi |-> route_rsi(returns),
                    macd |-> route_macd(Closes),
                    support_resistance |->
                        route_support_resistance(Column(stock_data, "high"),
                                                 Column(stock_data, "low")),
                    predicted_next_price |-> route_prediction(Closes),
                    current_price |-> 100 * Closes[Len(Closes)]]
    /\ UNCHANGED <<stock_data, nvars, rvars, avars>>

CalculateRsi ==
    /\ stock_data # <<>>
    /\ tech = NoTech
    /\ tech' = [op |-> "calculate_rsi", rsi |-> calculate_rsi(Closes, 14)]
    /\ UNCHANGED <<stock_data, nvars, rvars, avars>>

CalculateMacd ==
    /\ stock_data # <<>>
    /\ tech = NoTech
    /\ tech' = [op |-> "calculate_macd", macd |-> calculate_macd(Closes, 12, 26, 9)]
    /\ UNCHANGED <<stock_data, nvars, rvars, avars>>

CalculateBollingerBands ==
    /\ stock_data # <<>>
    /\ tech = NoTech
    /\ tech' = [op |-> "calculate_bollinger_bands",
                bands |-> calculate_bollinger_bands(Closes, 20, 2)]
    /\ UNCHANGED <<stock_data, nvars, rvars, avars>>

CalculateSupportResistance ==
    /\ stock_data # <<>>
    /\ tech = NoTech
    /\ tech' = [op |-> "calculate_support_resistance",
                levels |-> calculate_support_resistance(Column(stock_data, "high"),
                                                        Column(stock_data, "low"), 20)]
    /\ UNCHANGED <<stock_data, nvars, rvars, avars>>

PredictNextPrice ==
    /\ stock_data # <<>>
    /\ tech = NoTech
    /\ \E method \in Methods :
          tech' = [op |-> "predict_next_price", method |-> method,
                   next_price |-> predict_next_price(Closes, method)]
    /\ UNCHANGED <<stock_data, nvars, rvars, avars>>

NextIndicators ==
    \/ CalculateMetrics
    \/ PopulateStockData
    \/ GetTechnicalIndicators
    \/ CalculateRsi
    \/ CalculateMacd
    \/ CalculateBollingerBands
    \/ CalculateSupportResistance
    \/ PredictNextPrice

SpecIndicators == InitIndicators /\ [][NextIndicators]_vars

(***************************************************************************)
(* Claims about the indicator engine and the technical signals (checked    *)
(* under SpecIndicators).                                                  *)
(***************************************************************************)
\* the mean of the trailing min(i, window) values of `vals` at row i, to 2
\* decimals, stated through its defining inequality
IsTrailingMean(m, vals, i, window) ==
    LET k == Min(i, window)
        total == Sum(SubSeq(vals, i - k + 1, i))
    IN  2 * Abs(k * m - 100 * total) <= k

\* C8: for a normalized series of length >= 1, ma7, ma30 and volatility at
\* bar i are computed over the most recent min(i+1, window) observations
\* (7, 30, 20) and none of the three is ever undefined, the first bar included.
C8_NeverUndefined ==
    derived.kind = "frame" =>
        \A i \in 1..Len(derived.df.rows) :
            LET r == derived.df.rows[i]
                close == Column(derived.df.rows, "close")
            IN  /\ IsTrailingMean(r.ma7, close, i, 7)
                /\ IsTrailingMean(r.ma30, close, i, 30)
                /\ r.ma7 # NaN /\ r.ma30 # NaN /\ r.volatility # NaN

\* the whole input is 14 bars with one close and a zero return each day
FourteenIdenticalCloses ==
    /\ Len(stock_data) = 14
    /\ \A i \in 1..14 :
          stock_data[i].close = stock_data[1].close /\ stock_data[i].daily_return = 0

RsiComputed == tech.op \in {"technicals", "calculate_rsi"}

\* C9 as stated: 14 identical consecutive closes take the zero-loss branch
\* and give RSI 99.01 (99.0099 to two decimals).
C9_IdenticalClosesGive99 ==
    (RsiComputed /\ FourteenIdenticalCloses) => tech.rsi = 9901

\* C9 as amended: 14 identical consecutive closes are fewer than period + 1
\* observations, so the route and calculate_rsi both return the neutral 50.0.
C9_IdenticalClosesGive50 ==
    (RsiComputed /\ FourteenIdenticalCloses) => tech.rsi = 5000

\* the route has answered for a series of 14 identical closes
C9_RouteOnIdenticalCloses ==
    tech.op = "technicals" /\ FourteenIdenticalCloses

\* C10: MACD is all-zero exactly for fewer than slow (26) prices and
\* Bollinger all-zero exactly for fewer than period (20) prices; from that
\* length on (exactly 26 / 20 included) the real computation is the result.
C10_ZeroOnlyWhenShort ==
    /\ tech.op = "calculate_macd" =>
          tech.macd = IF Len(Closes) < 26 THEN ZeroMacd ELSE RealMacd(Closes, 12, 26, 9)
    /\ tech.op = "calculate_bollinger_bands" =>
          tech.bands = IF Len(Closes) < 20 THEN ZeroBands ELSE RealBands(Closes, 20, 2)
    /\ tech.op = "technicals" =>
          tech.macd.macd_line = IF Len(Closes) < 26 THEN 0 ELSE RouteMacdValue(Closes)

\* the daily returns of the queried window, a zero return included
AllReturns == Column(stock_data, "daily_return")

\* C26: RSI(14) is the neutral 50.0 exactly when the window holds fewer than
\* 15 return observations, every bar counting as one whatever its return;
\* with 15 or more it is computed from the most recent 14 of them (for
\* calculate_rsi the observations are the prices it is given).
C26_SentinelIffFewerThan15 ==
    /\ tech.op = "technicals" => tech.rsi = route_rsi(AllReturns)
    /\ tech.op = "calculate_rsi" => (Len(Closes) < 15 => tech.rsi = 5000)

\* the returns the route keeps: the truthy ones
KeptReturns == SelectSeq(AllReturns, LAMBDA r : r # 0)

\* C27: in the /technicals route a computed RSI whose window holds no
\* negative return is 99.01, never 100; in calculate_rsi a computed RSI
\* whose window holds no loss is exactly 100.0; every RSI is within [0, 100].
C27_ZeroLossConventions ==
    /\ (tech.op = "technicals" /\ Len(KeptReturns) > 14
            /\ Negative(Last(KeptReturns, 14)) = <<>>) => tech.rsi = 9901
    /\ (tech.op = "calculate_rsi" /\ Len(Closes) >= 15
            /\ Negative(Last(Diff(Closes), 14)) = <<>>) => tech.rsi = 10000
    /\ RsiComputed => (tech.rsi >= 0 /\ tech.rsi <= 10000)

\* the route computed an RSI over a window of 14 gains
C27_RouteWindowOfGains ==
    /\ tech.op = "technicals"
    /\ Len(KeptReturns) > 14
    /\ Negative(Last(KeptReturns, 14)) = <<>>
    /\ tech.rsi = 9901

Highs == Column(stock_data, "high")
Lows == Column(stock_data, "low")

\* C29: the support and resistance levels are the statistic of the trailing
\* 20 observations, and of the whole series when it has fewer than 20, for
\* every non-empty input: the 5th / 95th percentile in
\* calculate_support_resistance, the minimum / maximum in the route.
C29_FullSeriesWhenShort ==
    /\ tech.op = "calculate_support_resistance" =>
          tech.levels = RealLevels(Highs, Lows, 20)
    /\ tech.op = "technicals" =>
          /\ tech.support_resistance.support = 100 * MinOf(Last(Lows, 20))
          /\ tech.support_resistance.resistance = 100 * MaxOf(Last(Highs, 20))

\* C30: the projection is the last price unchanged when fewer than 10
\* observations exist, and from 10 observations on it is what the method
\* computes: the selected method in predict_next_price, the trend of the
\* last ten prices in the route.
C30_LastPriceIffFewerThan10 ==
    /\ tech.op = "predict_next_price" =>
          tech.next_price = IF Len(Closes) < 10 THEN 100 * Closes[Len(Closes)]
                            ELSE MethodNext(Closes, tech.method)
    /\ tech.op = "technicals" =>
          tech.predicted_next_price = IF Len(Closes) < 10 THEN 100 * Closes[Len(Closes)]
                                      ELSE RouteTrendNext(Closes)

(***************************************************************************)
(* The fallback resolver: DataService.get_stock_data.  One call runs from  *)
(* pc = "idle" to pc = "done"; each source attempt is one step, since the  *)
(* calls are sequential and blocking.                                      *)
(***************************************************************************)
DB == "database"
YF == "yfinance"

\* the bars an upstream fetch may deliver during a resolution
FetchBars ==
    UNION {[1..n -> [stamp : {Stamp(1, 0), Stamp(2, 0)},
                     quote : {Quote(100, 102, 99, 101, 1000),
                              Quote(NaN, NaN, NaN, 105, NaN)}]] : n \in 0..MaxBars}

\* fetch_daily_data / fetch_stock_data: None, or the frame built
Fetched(which) == {NoneValue} \cup {Frame(RawFrame(which, b)) : b \in FetchBars}

\* process_stock of either collector: the possible <<returned df, seconds
\* slept>>; only AlphaVantageCollector sleeps, and only before its final return
process_stock(which, fetched) ==
    IF fetched.kind = "none" \/ IsEmpty(fetched.df)
    THEN {[out |-> NoneValue, sleep |-> 0]}
    ELSE {IF c.kind = "raise" THEN [out |-> Raised, sleep |-> 0]
          ELSE IF IsEmpty(c.df) THEN [out |-> NoneValue, sleep |-> 0]
          ELSE [out |-> calculate_metrics(c.df), sleep |-> IF which = AV THEN 12 ELSE 0] :
             c \in clean_data(which, fetched.df)}

\* what a call of process_stock may do, an escaping exception included
SourceOutcomes(which) ==
    {[out |-> Raised, sleep |-> 0]}
        \cup UNION {process_stock(which, f) : f \in Fetched(which)}

DbColumns ==
    <<"date", "open", "high", "low", "close", "volume", "daily_return", "ma7", "ma30">>

\* the rows db.query(StockData)...order_by(StockData.date).all() may return
DbRowSets ==
    {LET d == calculate_metrics(MkFrame("", RangeIndex(n), AvColumns,
                                        SeriesRows(n, 0, q, q))).df
     IN  [i \in 1..n |-> [c \in Range(DbColumns) |-> d.rows[i][c]]] :
        n \in 0..MaxBars, q \in SeriesQuotes}

\* the database step: SessionLocal() raises, the query raises, or rows come back
DbOutcomes ==
    {[kind |-> "raise_open", data |-> <<>>], [kind |-> "raise_query", data |-> <<>>]}
        \cup {[kind |-> "rows", data |-> d] : d \in DbRowSets}

\* pd.DataFrame([{...} for d in data])
DbFrame(data) == MkFrame("", RangeIndex(Len(data)), DbColumns, data)

TailOfNothing(df, n) == MkFrame(df.index_name, <<>>, df.columns, <<>>)

\* df.tail(days)
tail(df, n) == MkFrame(df.index_name, Last(df.index, n), df.columns, Last(df.rows, n))

FirstSource == IF use_alpha_vantage THEN AV ELSE DB

NextSourceDbLast(src) ==
    CASE src = AV -> YF
      [] src = YF -> DB
      [] src = DB -> "done"

NextSourceSkipDb(src) ==
    CASE src = AV -> YF
      [] src = DB -> YF
      [] src = YF -> "done"

\* the order of the three blocks of get_stock_data
NextSource(src) ==
    CASE src = AV -> DB
      [] src = DB -> YF
      [] src = YF -> "done"

CatchesAllButDatabase(src) == src # DB

\* each block is wrapped in try / except Exception
Catches(src) == TRUE

DbFoundAlways(data) == TRUE

\* `if data:`
DbFound(data) == data # <<>>

\* `df is not None and not df.empty`
Succeeded(o) == o.kind = "frame" /\ ~IsEmpty(o.df)

Returned(df, source) == [status |-> "returned", none |-> FALSE, df |-> df, source |-> source]

\* return None, None
Absent == [status |-> "returned", none |-> TRUE, df |-> EmptyFrame, source |-> "None"]

Propagated == [status |-> "raised"]

Init ==
    /\ api_key \in ApiKeys
    /\ use_alpha_vantage = Enabled(api_key)
    /\ days = 0
    /\ pc = "idle"
    /\ calls = <<>>
    /\ yielded = <<>>
    /\ result = [status |-> "pending"]
    /\ open_sessions = 0
    /\ slept = 0
    /\ NormalizerIdle
    /\ TechnicalsIdle
    /\ ApiIdle

\* get_stock_data(symbol, days) is entered
GetStockData ==
    /\ pc = "idle"
    /\ \E d \in 1..MaxDays : days' = d
    /\ pc' = FirstSource
    /\ UNCHANGED <<api_key, use_alpha_vantage, calls, yielded, result, open_sessions, slept,
                   nvars, tvars, avars>>

\* what follows a block that raised (caught or not) or produced nothing
FallThrough(src, raised) ==
    IF raised /\ ~Catches(src)
    THEN pc' = "done" /\ result' = Propagated
    ELSE IF NextSource(src) = "done"
    THEN pc' = "done" /\ result' = Absent
    ELSE pc' = NextSource(src) /\ UNCHANGED result

\* the Alpha Vantage block
TryAlphaVantage ==
    /\ pc = AV
    /\ \E o \in SourceOutcomes(AV) :
          /\ calls' = Append(calls, AV)
          /\ yielded' = Append(yielded, o.out)
          /\ slept' = slept + o.sleep
          /\ IF Succeeded(o.out)
             THEN pc' = "done" /\ result' = Returned(tail(o.out.df, days), AV)
             ELSE FallThrough(AV, o.out.kind = "raise")
    /\ UNCHANGED <<api_key, use_alpha_vantage, days, open_sessions, nvars, tvars, avars>>

\* the database block
TryDatabase ==
    /\ pc = DB
    /\ \E o \in DbOutcomes :
          /\ calls' = Append(calls, DB)
          /\ yielded' = Append(yielded,
                IF o.kind = "rows" THEN Frame(DbFrame(o.data)) ELSE Raised)
          /\ open_sessions' = IF o.kind = "raise_query" THEN open_sessions + 1
                              ELSE open_sessions
          /\ IF o.kind = "rows" /\ DbFound(o.data)
             THEN pc' = "done" /\ result' = Returned(DbFrame(o.data), DB)
             ELSE FallThrough(DB, o.kind # "rows")
    /\ UNCHANGED <<api_key, use_alpha_vantage, days, slept, nvars, tvars, avars>>

\* the yfinance block
TryYfinance ==
    /\ pc = YF
    /\ \E o \in SourceOutcomes(DC) :
          /\ calls' = Append(calls, YF)
          /\ yielded' = Append(yielded, o.out)
          /\ IF Succeeded(o.out)
             THEN pc' = "done" /\ result' = Returned(o.out.df, YF)
             ELSE FallThrough(YF, o.out.kind = "raise")
    /\ UNCHANGED <<api_key, use_alpha_vantage, days, open_sessions, slept, nvars, tvars, avars>>

(***************************************************************************)
(* The persisted store (tables stock_data and companies) and the HTTP      *)
(* query surface over it: /data, /compare, /movers.  Dates are day         *)
(* numbers; closes are whole price units; daily_return is in units of      *)
(* 1e-4 percent; total returns and percent changes are in units of 1e-2    *)
(* percent; a correlation is in units of 1e-4.                             *)
(***************************************************************************)
Today == 400         \* the day number of datetime.now().date()

ApiSymbols == <<"TCS", "INFY", "ITC", "SBIN">>

\* a Company row whose profile lookup found nothing
Company(symbol) ==
    [symbol |-> symbol, name |-> symbol, sector |-> "Unknown", industry |-> "Unknown",
     market_cap |-> 0]

\* a StockData row
StockDataRow(symbol, date, close, ret, volume) ==
    [symbol |-> symbol, date |-> date, open |-> close, high |-> close, low |-> close,
     close |-> close, volume |-> volume, daily_return |-> ret,
     ma7 |-> 100 * close, ma30 |-> 100 * close]

\* the histories one symbol may have in the store, oldest bar first, each bar
\* <<age in days, close, daily_return, volume>>
Steady == << <<2, 100, 2, 1000>>, <<1, 100, 2, 1000>>, <<0, 101, 2, 1100>> >>

Slump == << <<40, 100, 3, 1000>>, <<1, 100, -1, 1000>>, <<0, 92, 2, 800>> >>

StoredHistories ==
    { <<>>, Steady, Slump,
      << <<0, 100, 2, 1000>> >>,
      << <<1, 100, 2, 1000>>, <<0, 105, 2, 1200>> >>,
      << <<1, 100, 0, 1000>>, <<0, 97, 2, 900>> >>,
      << <<2, 100, 1, 1000>>, <<1, 102, 2, 1000>>, <<0, 99, 2, 1000>> >>,
      << <<1, 200, 3, 1000>>, <<0, 210, 1, 1000>> >> }

\* the first two symbols take any history, the others one history or none
HistoriesOf(i) ==
    CASE i <= 2 -> StoredHistories
      [] i = 3 -> {<<>>, Steady}
      [] OTHER -> {<<>>, Slump}

HistoryRows(symbol, h) ==
    [i \in 1..Len(h) |-> StockDataRow(symbol, Today - h[i][1], h[i][2], h[i][3], h[i][4])]

Concat(ss) ==
    LET f[i \in 0..Len(ss)] == IF i = 0 THEN <<>> ELSE f[i - 1] \o ss[i]
    IN  f[Len(ss)]

\* the store after the seed scripts ran: one history per symbol
StoredTables ==
    {Concat([i \in 1..Len(ApiSymbols) |-> HistoryRows(ApiSymbols[i], hs[i])]) :
        hs \in {h \in [1..Len(ApiSymbols) -> StoredHistories] :
                   \A i \in 1..Len(ApiSymbols) : h[i] \in HistoriesOf(i)}}

\* db.query(StockData).filter(StockData.symbol == symbol, StockData.date >= cutoff)
Filter(symbol, cutoff) ==
    SelectSeq(table, LAMBDA r : r.symbol = symbol /\ r.date >= cutoff)

Reverse(s) == [i \in 1..Len(s) |-> s[Len(s) - i + 1]]

\* .order_by(StockData.date).all(): rows of equal date come in any order
OrderByDate(rows) == sort_values(rows)

\* .order_by(StockData.date.desc()).all()
OrderByDateDesc(rows) == {Reverse(s) : s \in sort_values(rows)}

\* [d.daily_return for d in data if d.daily_return]
Returns(data) == SelectSeq(Column(data, "daily_return"), LAMBDA r : r # 0)

\* (data[-1].close - data[0].close) / data[0].close * 100, rounded to 2 decimals
TotalReturn(data) ==
    RoundDiv(10000 * (data[Len(data)].close - data[1].close), data[1].close)

\* symbol1_return > symbol2_return, on the unrounded quotients
ReturnGreater(d1, d2) ==
    (d1[Len(d1)].close - d1[1].close) * d2[1].close
        > (d2[Len(d2)].close - d2[1].close) * d1[1].close

NanCorr == [nan |-> TRUE, value |-> 0]
Corr(v) == [nan |-> FALSE, value |-> v]

\* floor(10^8 * p / q) for p >= 0 and q > 0, by long division
LongDivide(p, q) ==
    LET f[k \in 0..8] ==
            IF k = 0 THEN <<p \div q, p % q>>
            ELSE <<f[k - 1][1] * 10 + (f[k - 1][2] * 10) \div q, (f[k - 1][2] * 10) % q>>
    IN  f[8][1]

\* The correlation of a sequence of zero variance with another.  Up to two
\* observations the mean is exact in floating point, every deviation is 0.0
\* and the quotient is 0/0 = nan; from three observations on the mean may be
\* off by one ulp, and the quotient of the rounding residues is nan, 0 or +-1.
ZeroVarianceCorr(x, y, vx, vy) ==
    IF Len(x) <= 2 THEN {NanCorr}
    ELSE IF vx # 0 \/ vy # 0 THEN {NanCorr, Corr(0)}
    ELSE IF x = y THEN {NanCorr, Corr(10000)}
    ELSE {NanCorr, Corr(10000), Corr(-10000)}

\* np.corrcoef(x, y)[0, 1] rounded to 4 decimals, for Len(x) = Len(y) > 0:
\* the possible values
corrcoef(x, y) ==
    LET n == Len(x)
        sx == Sum(x)
        sy == Sum(y)
        cov == n * Sum([i \in 1..n |-> x[i] * y[i]]) - sx * sy
        vx == n * Sum([i \in 1..n |-> x[i] * x[i]]) - sx * sx
        vy == n * Sum([i \in 1..n |-> y[i] * y[i]]) - sy * sy
    IN  IF vx = 0 \/ vy = 0 THEN ZeroVarianceCorr(x, y, vx, vy)
        ELSE LET r == (ISqrt(LongDivide(4 * cov * cov, vx * vy)) + 1) \div 2
             IN  {Corr(IF cov < 0 THEN -r ELSE r)}

\* routes.py: `if len(returns1) == len(returns2) and len(returns1) > 0`
RouteCorrelation(returns1, returns2) ==
    IF Len(returns1) = Len(returns2) /\ Len(returns1) > 0
    THEN corrcoef(returns1, returns2)
    ELSE {Corr(0)}

\* pd.merge(df1[['date', 'daily_return']], df2[['date', 'daily_return']], on='date')
Merge(rows1, rows2) ==
    LET at(i) == CHOOSE j \in 1..Len(rows2) : rows2[j].date = rows1[i].date
        common == SelectSeq([i \in 1..Len(rows1) |-> i],
                            LAMBDA i : \E j \in 1..Len(rows2) : rows2[j].date = rows1[i].date)
    IN  [k \in 1..Len(common) |->
            [date |-> rows1[common[k]].date,
             daily_return_1 |-> rows1[common[k]].daily_return,
             daily_return_2 |-> rows2[at(common[k])].daily_return]]

\* DataCollector.calculate_correlation(df1, df2): the possible values
calculate_correlation(rows1, rows2) ==
    IF rows1 = <<>> \/ rows2 = <<>> THEN {Corr(0)}
    ELSE LET merged == Merge(rows1, rows2)
         IN  IF merged = <<>> THEN {Corr(0)}
             ELSE corrcoef(Column(merged, "daily_return_1"),
                           Column(merged, "daily_return_2"))

(***************************************************************************)
(* Route handlers.  A request runs from reply = NoReply to its reply; the  *)
(* reply of a handler is the value it returns or the HTTPException it      *)
(* raises.  queries counts the database and resolver calls of the handler. *)
(***************************************************************************)
Missing == "(missing)"

SymbolArgs == Range(ApiSymbols) \cup {Missing}

\* days: int = Query(default=30, ge=1, le=365)
DataDaysValid(d) == d >= 1 /\ d <= 365

CompareDaysValidFromOne(d) == d >= 1 /\ d <= 365

\* days: int = Query(default=90, ge=30, le=365)
CompareDaysValid(d) == d >= 30 /\ d <= 365

\* limit: int = Query(default=5, ge=1, le=10)
LimitValid(l) == l >= 1 /\ l <= 10

DataDaysArgs == {-1, 0, 1, 365, 366}

CompareDaysArgs == {29, 30, 365, 366}

LimitArgs == {0, 1, 2, 10, 11}

\* RequestValidationError: the handler is not called
UnprocessableEntity(route, request) == [route |-> route, status |-> 422, request |-> request]

NotFound(route, request) == [route |-> route, status |-> 404, request |-> request]

\* `except Exception` of a handler: HTTPException(status_code=500)
ServerError(route, request) == [route |-> route, status |-> 500, request |-> request]

\* GET /compare: the handler body over the two query results
CompareBody(request, data1, data2) ==
    IF data1 = <<>> \/ data2 = <<>> THEN {NotFound("compare", request)}
    ELSE {[route |-> "compare", status |-> 200, request |-> request,
           correlation |-> c,
           symbol1_return |-> TotalReturn(data1),
           symbol2_return |-> TotalReturn(data2),
           better_performer |-> IF ReturnGreater(data1, data2)
                                THEN request.symbol1 ELSE request.symbol2] :
             c \in RouteCorrelation(Returns(data1), Returns(data2))}

\* GET /compare?symbol1=..&symbol2=..&days=..
CompareStocks ==
    /\ reply = NoReply
    /\ \E s1 \in SymbolArgs, s2 \in SymbolArgs, d \in CompareDaysArgs, fails \in BOOLEAN :
          LET request == [symbol1 |-> s1, symbol2 |-> s2, days |-> d]
          IN  IF s1 = Missing \/ s2 = Missing \/ ~CompareDaysValid(d)
              THEN /\ ~fails
                   /\ reply' = UnprocessableEntity("compare", request)
                   /\ UNCHANGED queries
              ELSE IF fails
              THEN /\ reply' = ServerError("compare", request)
                   /\ queries' = queries + 1
              ELSE /\ queries' = queries + 2
                   /\ \E data1 \in OrderByDate(Filter(s1, today - d)),
                         data2 \in OrderByDate(Filter(s2, today - d)) :
                         reply' \in CompareBody(request, data1, data2)
    /\ UNCHANGED <<today, table, companies, rvars, nvars, tvars>>

\* DataCollector.calculate_correlation over the processed frames of two symbols
CalculateCorrelation ==
    /\ reply = NoReply
    /\ \E s1 \in Range(ApiSymbols), s2 \in Range(ApiSymbols) :
          \E df1 \in OrderByDate(Filter(s1, 0)), df2 \in OrderByDate(Filter(s2, 0)) :
             \E c \in calculate_correlation(df1, df2) :
                reply' = [route |-> "calculate_correlation", status |-> 0,
                          request |-> [symbol1 |-> s1, symbol2 |-> s2],
                          correlation |-> c]
    /\ UNCHANGED <<today, table, companies, queries, rvars, nvars, tvars>>

\* .filter(StockData.symbol == company.symbol).order_by(StockData.date.desc()).limit(2).all()
RecentData(symbol) ==
    {SubSeq(r, 1, Min(2, Len(r))) :
        r \in OrderByDateDesc(SelectSeq(table, LAMBDA row : row.symbol = symbol))}

\* MoverResponse for a company with two recent bars
Mover(company, recent_data) ==
    LET latest == recent_data[1]
        previous == recent_data[2]
    IN  [symbol |-> company.symbol,
         name |-> company.name,
         current_price |-> latest.close,
         change_percent |-> RoundDiv(10000 * (latest.close - previous.close), previous.close),
         volume |-> latest.volume]

\* the loop over companies[:15]: the possible movers_data lists
MoversData ==
    LET cs == SubSeq(companies, 1, Min(15, Len(companies)))
        f[i \in 0..Len(cs)] ==
            IF i = 0 THEN {<<>>}
            ELSE {IF Len(r) >= 2 THEN Append(m, Mover(cs[i], r)) ELSE m :
                     m \in f[i - 1], r \in RecentData(cs[i].symbol)}
    IN  f[Len(cs)]

\* movers_data.sort(key=lambda x: x.change_percent, reverse=True): stable
SortByChangeDesc(ms) ==
    LET n == Len(ms)
        rank(i) == Cardinality({j \in 1..n : ms[j].change_percent > ms[i].change_percent})
                     + Cardinality({j \in 1..i : ms[j].change_percent = ms[i].change_percent})
    IN  [k \in 1..n |-> ms[CHOOSE i \in 1..n : rank(i) = k]]

\* movers_data[:limit]
Gainers(ranked, limit) == SubSeq(ranked, 1, Min(limit, Len(ranked)))

LosersNotReversed(ranked, limit) == Last(ranked, limit)

\* movers_data[-limit:][::-1]
Losers(ranked, limit) == Reverse(Last(ranked, limit))

\* GET /movers?limit=..
GetTopMovers ==
    /\ reply = NoReply
    /\ \E l \in LimitArgs, fails \in BOOLEAN :
          LET request == [limit |-> l]
          IN  IF ~LimitValid(l)
              THEN /\ ~fails
                   /\ reply' = UnprocessableEntity("movers", request)
                   /\ UNCHANGED queries
              ELSE IF fails
              THEN /\ reply' = ServerError("movers", request)
                   /\ queries' = queries + 1
              ELSE /\ queries' = queries + 1 + Min(15, Len(companies))
                   /\ \E ms \in MoversData :
                         LET ranked == SortByChangeDesc(ms)
                         IN  reply' = [route |-> "movers", status |-> 200,
                                       request |-> request,
                                       gainers |-> Gainers(ranked, l),
                                       losers |-> Losers(ranked, l)]
    /\ UNCHANGED <<today, table, companies, rvars, nvars, tvars>>

\* the bars the upstream APIs may deliver while a /data request is served
UpstreamBars ==
    { <<>>,
      << [stamp |-> Stamp(1, 0), quote |-> Quote(100, 102, 99, 101, 1000)],
         [stamp |-> Stamp(2, 0), quote |-> Quote(101, 103, 100, 102, 1200)] >>,
      << [stamp |-> Stamp(2, 0), quote |-> Quote(101, 103, 100, 102, 1200)],
         [stamp |-> Stamp(1, 0), quote |-> Quote(NaN, NaN, NaN, 105, NaN)] >> }

\* what process_stock of a collector may hand to get_stock_data
UpstreamOutcomes(which) ==
    {Raised} \cup
    {o.out : o \in UNION {process_stock(which, f) :
                f \in {NoneValue} \cup {Frame(RawFrame(which, b)) : b \in UpstreamBars}}}

DbRows(data) == [i \in 1..Len(data) |-> [c \in Range(DbColumns) |-> data[i][c]]]

\* data_service.get_stock_data(symbol, days) as the /data route sees it: the
\* results the three blocks may produce over the store and the upstreams (a
\* block is reached when every earlier one raised or yielded nothing, which
\* each of them may)
ServiceResults(symbol, d) ==
    LET av == {Returned(tail(o.df, d), AV) :
                  o \in {u \in UpstreamOutcomes(AV) : Succeeded(u)}}
        db == {Returned(DbFrame(DbRows(data)), DB) :
                  data \in {r \in OrderByDate(Filter(symbol, today - d)) : DbFound(r)}}
        yf == {Returned(o.df, YF) :
                  o \in {u \in UpstreamOutcomes(DC) : Succeeded(u)}}
    IN  (IF use_alpha_vantage THEN av ELSE {}) \cup db \cup yf \cup {Absent}

\* [StockDataResponse(date=..., ..., ma30=...) for each row]
DataResponse(rows) == [i \in 1..Len(rows) |-> [c \in Range(DbColumns) |-> rows[i][c]]]

NotStockDataNever(rows) == FALSE

\* `if not stock_data:`
NotStockData(rows) == rows = <<>>

\* The /data handler once data_service answered r: the possible <<reply,
\* calls made>>.  fallback holds the row lists the handler's own query may return.
DataBody(request, r, fallback) ==
    IF r.status = "raised" THEN {[reply |-> ServerError("data", request), calls |-> 1]}
    ELSE IF ~r.none /\ ~IsEmpty(r.df)
    THEN {[reply |-> [route |-> "data", status |-> 200, request |-> request,
                      source |-> r.source, body |-> DataResponse(r.df.rows)],
           calls |-> 1]}
    ELSE {[reply |-> ServerError("data", request), calls |-> 2]} \cup
         {[reply |-> IF NotStockData(rows) THEN NotFound("data", request)
                     ELSE [route |-> "data", status |-> 200, request |-> request,
                           source |-> DB,
                           body |-> SubSeq(DataResponse(rows), 1,
                                           Min(request.days, Len(rows)))],
           calls |-> 2] : rows \in fallback}

\* GET /data/{symbol}?days=..
GetStockDataRoute ==
    /\ reply = NoReply
    /\ \E symbol \in Range(ApiSymbols), d \in DataDaysArgs :
          LET request == [symbol |-> symbol, days |-> d]
          IN  IF ~DataDaysValid(d)
              THEN /\ reply' = UnprocessableEntity("data", request)
                   /\ UNCHANGED queries
              ELSE \E r \in ServiceResults(symbol, d) :
                      \E o \in DataBody(request, r,
                                        OrderByDateDesc(Filter(symbol, today - d))) :
                         /\ reply' = o.reply
                         /\ queries' = queries + o.calls
    /\ UNCHANGED <<today, table, companies, rvars, nvars, tvars>>

InitApi ==
    /\ api_key \in {Placeholder, "demo"}
    /\ use_alpha_vantage = Enabled(api_key)
    /\ days = 0
    /\ pc = "idle"
    /\ calls = <<>>
    /\ yielded = <<>>
    /\ result = [status |-> "pending"]
    /\ open_sessions = 0
    /\ slept = 0
    /\ NormalizerIdle
    /\ TechnicalsIdle
    /\ today = Today
    /\ table \in StoredTables
    /\ companies = [i \in 1..Len(ApiSymbols) |-> Company(ApiSymbols[i])]
    /\ queries = 0
    /\ reply = NoReply

NextApi == GetStockDataRoute \/ CompareStocks \/ GetTopMovers \/ CalculateCorrelation

SpecApi == InitApi /\ [][NextApi]_vars

(***************************************************************************)
(* Claims about the query surface (checked under SpecApi).                 *)
(***************************************************************************)
Compared == reply.route = "compare" /\ reply.status = 200

\* the rows of a symbol inside the comparison window, oldest first
WindowRows(symbol) ==
    CHOOSE data \in OrderByDate(Filter(symbol, today - reply.request.days)) : TRUE

\* the non-zero daily returns of a symbol inside the comparison window
ReturnsOf(symbol) == SelectSeq(Column(WindowRows(symbol), "daily_return"), LAMBDA r : r # 0)

\* C11: in /compare the correlation is 0.0 unless the two return sequences
\* have equal length and at least one element; two identical return
\* sequences of length >= 2 give 1.0 and two of unequal length give 0.0.
C11_CorrelationContract ==
    Compared =>
        LET r1 == ReturnsOf(reply.request.symbol1)
            r2 == ReturnsOf(reply.request.symbol2)
        IN  /\ (Len(r1) # Len(r2) \/ Len(r1) = 0) => reply.correlation = Corr(0)
            /\ (r1 = r2 /\ Len(r1) >= 2) => reply.correlation = Corr(10000)

\* two symbols with the same two equal returns have been compared
C11_ConstantReturnsCompared ==
    /\ Compared
    /\ reply.request.symbol1 # reply.request.symbol2
    /\ ReturnsOf(reply.request.symbol1) = <<2, 2>>
    /\ ReturnsOf(reply.request.symbol2) = <<2, 2>>

\* total return of s1 exceeds / equals that of s2, on the exact quotients
Gain(symbol) ==
    LET data == WindowRows(symbol)
    IN  [up |-> data[Len(data)].close - data[1].close, from |-> data[1].close]

\* C12: better_performer is the symbol whose total return is strictly
\* greater, and symbol1 when the two total returns are equal.
C12_TiesFavorSymbol1 ==
    Compared =>
        LET g1 == Gain(reply.request.symbol1)
            g2 == Gain(reply.request.symbol2)
        IN  reply.better_performer =
                IF g2.up * g1.from > g1.up * g2.from
                THEN reply.request.symbol2 ELSE reply.request.symbol1

\* two different symbols of equal total return have been compared
C12_TieCompared ==
    /\ Compared
    /\ reply.request.symbol1 # reply.request.symbol2
    /\ LET g1 == Gain(reply.request.symbol1)
           g2 == Gain(reply.request.symbol2)
       IN  g2.up * g1.from = g1.up * g2.from

Moved == reply.route = "movers" /\ reply.status = 200

BarsOf(symbol) == {i \in 1..Len(table) : table[i].symbol = symbol}

\* the companies having at least two bars
Candidates ==
    {c \in {companies[i].symbol : i \in 1..Len(companies)} : Cardinality(BarsOf(c)) >= 2}

\* percent change of close between the two most recent bars of a candidate,
\* as reported (2 decimals)
Change(c) ==
    LET latest == CHOOSE i \in BarsOf(c) : \A j \in BarsOf(c) : table[j].date <= table[i].date
        previous == CHOOSE i \in BarsOf(c) \ {latest} :
                        \A j \in BarsOf(c) \ {latest} : table[j].date <= table[i].date
    IN  RoundDiv(10000 * (table[latest].close - table[previous].close), table[previous].close)

\* list is made of distinct candidates, each with its own change
OfCandidates(list) ==
    /\ \A i \in 1..Len(list) :
          list[i].symbol \in Candidates /\ list[i].change_percent = Change(list[i].symbol)
    /\ \A i, j \in 1..Len(list) : i # j => list[i].symbol # list[j].symbol

Listed(list) == {list[i].symbol : i \in 1..Len(list)}

\* C13: gainers is the first min(limit, n) of the candidates ranked
\* descending by percent change, in descending order; losers is the last
\* min(limit, n) of that ranking, most negative first; neither list exceeds
\* limit.  Changes [+5, -3, +1, -8] with limit 2 give gainers [+5, +1] and
\* losers [-8, -3].
C13_GainersAndLosers ==
    Moved =>
        LET k == Min(reply.request.limit, Cardinality(Candidates))
            g == reply.gainers
            l == reply.losers
        IN  /\ Len(g) = k /\ Len(l) = k /\ k <= reply.request.limit
            /\ OfCandidates(g) /\ OfCandidates(l)
            /\ \A i, j \in 1..k : i < j =>
                  /\ g[i].change_percent >= g[j].change_percent
                  /\ l[i].change_percent <= l[j].change_percent
            /\ \A c \in Candidates \ Listed(g) : k > 0 => Change(c) <= g[k].change_percent
            /\ \A c \in Candidates \ Listed(l) : k > 0 => Change(c) >= l[k].change_percent
            /\ ([i \in 1..Len(companies) |->
                    IF companies[i].symbol \in Candidates
                    THEN Change(companies[i].symbol) ELSE 0]
                        = <<500, -300, 100, -800>> /\ reply.request.limit = 2) =>
                  /\ Column(g, "change_percent") = <<500, 100>>
                  /\ Column(l, "change_percent") = <<-800, -300>>

\* /movers?limit=2 has answered over four candidates changing +5, -3, +1, -8
C13_FourCandidatesLimitTwo ==
    /\ Moved
    /\ reply.request.limit = 2
    /\ Cardinality(Candidates) = 4
    /\ [i \in 1..Len(companies) |-> Change(companies[i].symbol)] = <<500, -300, 100, -800>>

\* the request of the latest reply is outside what its route declares
OutOfRange ==
    CASE reply.route = "data" -> reply.request.days \notin 1..365
      [] reply.route = "movers" -> reply.request.limit \notin 1..10
      [] reply.route = "compare" ->
            \/ reply.request.days \notin 30..365
            \/ reply.request.symbol1 = Missing
            \/ reply.request.symbol2 = Missing
      [] OTHER -> FALSE

\* C14: a request whose days / limit is out of range, or which lacks
\* symbol1 / symbol2, is answered 422 without any resolver, store or
\* analytics call; every other request reaches its handler.
C14_RejectedAtBoundary ==
    reply.route \in {"data", "movers", "compare"} =>
        /\ OutOfRange <=> reply.status = 422
        /\ reply.status = 422 => queries = 0
        /\ reply.status # 422 => queries >= 1

\* /compare with days = 29 has been rejected
C14_CompareBelowRange ==
    /\ reply.route = "compare"
    /\ reply.request.days = 29
    /\ reply.request.symbol1 # Missing /\ reply.request.symbol2 # Missing
    /\ reply.status = 422

\* GET /data answered with a series
Served == reply.route = "data" /\ reply.status = 200

\* C24: every series GET /data/{symbol} returns is strictly increasing in
\* date, so has at most one bar per date, and has at most `days` bars,
\* whether it is the resolver's result or the route's own store query.
C24_SeriesShape ==
    Served =>
        /\ \A i \in 1..Len(reply.body) - 1 : reply.body[i].date < reply.body[i + 1].date
        /\ Len(reply.body) <= reply.request.days

\* GET /data was called with days in 1..365 and has answered
Answered == reply.route = "data" /\ DataDaysValid(reply.request.days)

\* the store has no row of the symbol on or after the cutoff date
NothingStored ==
    Filter(reply.request.symbol, today - reply.request.days) = <<>>

FallbackRows ==
    IF \E i \in 1..Len(calls) : calls[i] = DB /\ yielded[i].kind = "frame"
    THEN {<<>>}
    ELSE {Reverse(d) : d \in DbRowSets}

\* routes.py, after `df, source = data_service.get_stock_data(symbol, days)`
ServeData ==
    /\ pc = "done"
    /\ reply = NoReply
    /\ \E o \in DataBody([symbol |-> ApiSymbols[1], days |-> days], result, FallbackRows) :
          /\ reply' = o.reply
          /\ queries' = queries + o.calls
    /\ UNCHANGED <<today, table, companies, rvars, nvars, tvars>>

Next == GetStockData \/ TryAlphaVantage \/ TryDatabase \/ TryYfinance \/ ServeData

Spec == Init /\ [][Next]_vars

(***************************************************************************)
(* Claims about the fallback resolver (checked under Spec).                *)
(***************************************************************************)
\* the priority order of the sources for this DataService
Chain == (IF use_alpha_vantage THEN <<AV>> ELSE <<>>) \o <<DB, YF>>

\* a source produced a series with at least one bar
NonEmptyYield(o) == o.kind = "frame" /\ Len(o.df.rows) > 0

Done == pc = "done"

Resolved == Done /\ result.status = "returned" /\ ~result.none

Count(src) == Cardinality({i \in 1..Len(calls) : calls[i] = src})

\* the series a source's block hands back for this call
Handed(i) == IF calls[i] = AV THEN tail(yielded[i].df, days) ELSE yielded[i].df

\* C1: the sources are consulted strictly in the order alpha_vantage (only
\* when enabled), database, yfinance; a source is attempted only after the
\* previous one completed without a non-empty result; the call returns the
\* series of the first source with a non-empty result, tagged with its name,
\* and no later source is invoked.
C1_PriorityOrder ==
    /\ Len(calls) <= Len(Chain)
    /\ calls = SubSeq(Chain, 1, Len(calls))
    /\ Len(yielded) = Len(calls)
    /\ \A i \in 1..Len(calls) - 1 : ~NonEmptyYield(yielded[i])
    /\ (pc \notin {"idle", "done"}) => pc = Chain[Len(calls) + 1]
    /\ (\E i \in 1..Len(calls) : NonEmptyYield(yielded[i])) => Resolved
    /\ Resolved =>
          /\ result.source = calls[Len(calls)]
          /\ NonEmptyYield(yielded[Len(calls)])
          /\ result.df = Handed(Len(calls))

\* the database answered after Alpha Vantage had been tried and had failed
C1_DatabaseAfterAlphaVantage ==
    Resolved /\ calls = <<AV, DB>> /\ result.source = DB

\* C2: with the primary API enabled, when alpha_vantage and database both
\* fail or come back empty and only yfinance succeeds, the result is
\* yfinance's series tagged 'yfinance' and alpha_vantage and database have
\* each been invoked exactly once.
C2_OnlyThirdSucceeds ==
    /\ (use_alpha_vantage /\ Done /\ Len(calls) >= 2
            /\ ~NonEmptyYield(yielded[1]) /\ ~NonEmptyYield(yielded[2])) =>
          /\ calls = <<AV, DB, YF>>
          /\ NonEmptyYield(yielded[3]) => (Resolved /\ result.source = YF)
    /\ (use_alpha_vantage /\ Resolved /\ result.source = YF) =>
          /\ calls = <<AV, DB, YF>>
          /\ Count(AV) = 1 /\ Count(DB) = 1 /\ Count(YF) = 1
          /\ ~NonEmptyYield(yielded[1]) /\ ~NonEmptyYield(yielded[2])
          /\ result.df = yielded[3].df

\* yfinance answered after the two sources before it failed
C2_ThirdSourceAnswered ==
    use_alpha_vantage /\ Resolved /\ result.source = YF /\ result.df.rows # <<>>

\* C3: get_stock_data returns (None, None) if and only if every source that
\* was attempted raised or returned None / an empty series.
C3_AbsentIffAllFailed ==
    Done =>
        /\ result.status = "returned"
        /\ result.none <=> (\A i \in 1..Len(calls) : ~NonEmptyYield(yielded[i]))
        /\ result.none => (calls = Chain /\ result.source = "None")
        /\ ~result.none => result.df.rows # <<>>

\* every source of the chain was tried and the call returned (None, None)
C3_Exhausted == Done /\ result = Absent /\ Len(calls) = 3

\* C4: no exception of a source is propagated out of get_stock_data: for
\* every combination of per-source outcomes the call returns a value, and a
\* source that raised does not keep the remaining sources from being tried.
C4_NothingPropagates ==
    /\ result.status # "raised"
    /\ Done => result.status = "returned"
    /\ pc \in {"idle", "done"} \cup Range(Chain)     \* a block is always ready to run
    /\ \A i \in 1..Len(calls) :
          yielded[i].kind = "raise" =>
              \/ Len(calls) > i
              \/ (i < Len(Chain) /\ pc = Chain[i + 1])
              \/ (i = Len(Chain) /\ result = Absent)

\* a source raised and a later source still produced the result
C4_RaiseThenAnswer ==
    /\ Resolved
    /\ \E i \in 1..Len(calls) - 1 : yielded[i].kind = "raise"

\* C16: every call of AlphaVantageCollector.process_stock, failed ones
\* included, spends the 12-second cooldown before it returns.
C16_CooldownOnEveryCall == slept = 12 * Count(AV)

\* an Alpha Vantage call has returned nothing
C16_FailedAlphaVantageCall ==
    \E i \in 1..Len(calls) : calls[i] = AV /\ yielded[i] = NoneValue

\* C21: when ALPHA_VANTAGE_API_KEY is unset, empty or the placeholder,
\* get_stock_data never invokes the Alpha Vantage adapter, never spends its
\* cooldown, never returns provenance 'alpha_vantage', and resolution starts
\* at the persisted store.
C21_UnconfiguredSkipsAlphaVantage ==
    (api_key \in {Unset, "", Placeholder}) =>
        /\ ~use_alpha_vantage
        /\ pc # AV
        /\ Count(AV) = 0
        /\ slept = 0
        /\ (Done /\ result.status = "returned") => result.source # AV
        /\ (pc # "idle") => (calls # <<>> /\ calls[1] = DB) \/ (calls = <<>> /\ pc = DB)

\* an unconfigured service resolved a call from the store
C21_EmptyKeyResolved ==
    api_key = "" /\ Resolved /\ result.source = DB /\ calls = <<DB>>

TaggedOrAbsent ==
    Done =>
        \/ result = Absent
        \/ /\ result.status = "returned" /\ ~result.none
           /\ result.source \in {AV, DB, YF}
           /\ ~IsEmpty(result.df)
           /\ result.source = calls[Len(calls)]
           /\ result.df = Handed(Len(calls))

\* C20: get_stock_data returns (non-empty series, tag) with the tag naming
\* the source that produced the series, or (None, None); and once it has
\* returned, the route's use of the result leaves series and tag as they are.
C20_TaggedOrAbsent == [](TaggedOrAbsent) /\ [][Done => result' = result]_vars

\* the route has served a series that came tagged alpha_vantage
C20_ServedTagged ==
    /\ Resolved
    /\ result.source = AV
    /\ reply.route = "data" /\ reply.status = 200
    /\ reply.source = AV


(***************************************************************************)
(* The seed and setup scripts writing the store: populate_mock_data,       *)
(* populate_stock_data of setup_database, the loop                         *)
(* of setup_with_alphavantage, and get_company_info of both collectors.    *)
(* A run of a script is one step: it opens its own session, and the        *)
(* session does not autoflush, so an existence query sees committed rows   *)
(* only.                                                                   *)
(***************************************************************************)
SeedDay == 3         \* the day number of datetime.now().date() at the first run
MockDays == 2        \* days of generate_realistic_price_data (90 in the script)

\* the first entries of AlphaVantageCollector.STOCK_SYMBOLS
STOCK_SYMBOLS ==
    ("AAPL" :> "Apple Inc.") @@ ("MSFT" :> "Microsoft Corporation")
        @@ ("GOOGL" :> "Alphabet Inc.")

\* the first entries of DataCollector.INDIAN_STOCKS
INDIAN_STOCKS == <<"TCS.NS", "INFY.NS">>

\* the symbols get_company_info is called with
InfoSymbols == Range(INDIAN_STOCKS) \cup DOMAIN STOCK_SYMBOLS \cup {"RELIANCE.BSE", "IBM"}

\* symbol.replace('.NS', '').replace('.BO', '')
StripNs(symbol) ==
    CASE symbol = "TCS.NS" -> "TCS"
      [] symbol = "INFY.NS" -> "INFY"
      [] OTHER -> symbol

\* symbol.replace('.BSE', '').replace('.NSE', '')
StripBse(symbol) == IF symbol = "RELIANCE.BSE" THEN "RELIANCE" ELSE symbol

\* f"{clean_symbol} Corporation"
Corporation(clean_symbol) ==
    CASE clean_symbol = "RELIANCE" -> "RELIANCE Corporation"
      [] clean_symbol = "IBM" -> "IBM Corporation"
      [] clean_symbol = "TCS.NS" -> "TCS.NS Corporation"
      [] clean_symbol = "INFY.NS" -> "INFY.NS Corporation"
      [] OTHER -> "(a symbol of STOCK_SYMBOLS) Corporation"

\* what the upstream profile lookup may do: raise, or answer with a mapping
\* in which any key may be absent (an empty mapping included); the values
\* are written as text, a capitalization Alpha Vantage does not know being
\* the text "None"
Profile(sym, name, sector, industry, cap) ==
    [kind |-> "profile", Symbol |-> sym, Name |-> name, Sector |-> sector,
     Industry |-> industry, MarketCapitalization |-> cap]
Lookups(which, symbol) ==
    {[kind |-> "raise"],
     Profile(Missing, Missing, Missing, Missing, Missing),
     Profile(symbol, "Listed Company Ltd", "Technology", "Software", "5000000"),
     Profile(symbol, "Listed Company Ltd", Missing, "Software", Missing)}
        \cup (IF which = AV
              THEN {Profile(symbol, "Listed Company Ltd", "Technology", "Software", "None")}
              ELSE {})

\* the number a capitalization text stands for
Float(text) == IF text = "5000000" THEN 5000000 ELSE 0

\* dict.get(key, default)
GetOr(value, default) == IF value = Missing THEN default ELSE value

\* the profile both functions return when they give up on the upstream
UnknownProfile(symbol, name) ==
    [symbol |-> symbol, name |-> name, sector |-> "Unknown", industry |-> "Unknown",
     market_cap |-> 0]

\* AlphaVantageCollector.get_company_info
get_company_info_av(symbol, data) ==
    LET clean_symbol == StripBse(symbol)
        name == IF clean_symbol \in DOMAIN STOCK_SYMBOLS THEN STOCK_SYMBOLS[clean_symbol]
                ELSE Corporation(clean_symbol)
    IN  IF data.kind = "raise" THEN UnknownProfile(clean_symbol, name)
        ELSE IF data.Symbol = Missing THEN UnknownProfile(clean_symbol, name)
        ELSE IF data.MarketCapitalization = "None"       \* float('None') raises
             THEN UnknownProfile(clean_symbol, name)
        ELSE [symbol |-> GetOr(data.Symbol, symbol),
              name |-> GetOr(data.Name, symbol),
              sector |-> GetOr(data.Sector, "Unknown"),
              industry |-> GetOr(data.Industry, "Unknown"),
              market_cap |-> Float(GetOr(data.MarketCapitalization, "0"))]

\* DataCollector.get_company_info
get_company_info_dc(symbol, info) ==
    IF info.kind = "raise" THEN UnknownProfile(StripNs(symbol), symbol)
    ELSE [symbol |-> StripNs(symbol),
          name |-> GetOr(info.Name, symbol),
          sector |-> GetOr(info.Sector, "Unknown"),
          industry |-> GetOr(info.Industry, "Unknown"),
          market_cap |-> Float(GetOr(info.MarketCapitalization, "0"))]

get_company_info(which, symbol, upstream) ==
    IF which = AV THEN get_company_info_av(symbol, upstream)
    ELSE get_company_info_dc(symbol, upstream)

\* a call of get_company_info that has not returned yet
Called(which, symbol, upstream) ==
    [route |-> "get_company_info", status |-> 0, returned |-> FALSE,
     request |-> [collector |-> which, symbol |-> symbol, upstream |-> upstream],
     info |-> UnknownProfile(Missing, Missing)]

InitCompanyInfo ==
    /\ ResolverIdle
    /\ NormalizerIdle
    /\ TechnicalsIdle
    /\ today = 0
    /\ table = <<>>
    /\ companies = <<>>
    /\ queries = 0
    /\ reply \in UNION {{Called(which, symbol, upstream) : upstream \in Lookups(which, symbol)} :
                           which \in {AV, DC}, symbol \in InfoSymbols}

\* get_company_info of either collector returns
GetCompanyInfo ==
    /\ reply.route = "get_company_info"
    /\ ~reply.returned
    /\ reply' = [reply EXCEPT !.returned = TRUE,
                              !.info = get_company_info(reply.request.collector,
                                                        reply.request.symbol,
                                                        reply.request.upstream)]
    /\ UNCHANGED <<today, table, companies, queries, rvars, nvars, tvars>>

SpecCompanyInfo == InitCompanyInfo /\ [][GetCompanyInfo]_vars

\* the upstream lookup of the call failed: it raised, or its answer lacks
\* the profile
LookupFailed ==
    /\ reply.route = "get_company_info"
    /\ reply.returned
    /\ \/ reply.request.upstream.kind = "raise"
       \/ reply.request.upstream.Symbol = Missing

\* C18: when the upstream profile lookup fails, get_company_info returns a
\* profile whose name is the entry of the static symbol->name table for the
\* symbol, whose sector and industry are 'Unknown' and whose market_cap is 0.
C18_FallbackFromStaticTable ==
    LookupFailed =>
        /\ reply.info.sector = "Unknown"
        /\ reply.info.industry = "Unknown"
        /\ reply.info.market_cap = 0
        /\ \E s \in DOMAIN STOCK_SYMBOLS : /\ s = reply.info.symbol
                                           /\ reply.info.name = STOCK_SYMBOLS[s]

\* two entries of the `stocks` dict of populate_mock_data, symbol and base
\* price, and the first entry of test_stocks
stocks == <<[symbol |-> "TCS", base_price |-> 100], [symbol |-> "INFY", base_price |-> 110]>>
test_stocks == <<"AAPL">>

\* generate_realistic_price_data: consecutive days ending yesterday, the
\* prices a walk from the base price (one walk stands for the random draws)
generate_realistic_price_data(symbol, base_price) ==
    [i \in 1..MockDays |->
        StockDataRow(symbol, today - MockDays + (i - 1), base_price + 3 * i, 2, 1000)]

\* the bars the upstream may deliver to a setup run: two days, one day seen
\* twice (an early partial bar and the closing bar), a later window
SeedBars ==
    { << [stamp |-> Stamp(1, 0), quote |-> Quote(100, 102, 99, 101, 1000)],
         [stamp |-> Stamp(2, 0), quote |-> Quote(101, 103, 100, 102, 1200)] >>,
      << [stamp |-> Stamp(2, 0), quote |-> Quote(NaN, NaN, NaN, 105, NaN)],
         [stamp |-> Stamp(2, 1), quote |-> Quote(101, 103, 100, 102, 1200)] >>,
      << [stamp |-> Stamp(2, 0), quote |-> Quote(201, 203, 200, 202, 1500)],
         [stamp |-> Stamp(3, 0), quote |-> Quote(202, 204, 201, 203, 1600)] >> }

\* what process_stock of a collector may hand to a setup script
SeedOutcomes(which) ==
    {Raised} \cup
    {o.out : o \in UNION {process_stock(which, f) :
                f \in {NoneValue} \cup {Frame(RawFrame(which, b)) : b \in SeedBars}}}

\* StockData(symbol=..., date=row['date'], open=float(row['open']), ...): the
\* store keeps the calendar date as a day number
SeedRow(symbol, row) ==
    [symbol |-> symbol, date |-> row.date \div TicksPerDay, open |-> row.open,
     high |-> row.high, low |-> row.low, close |-> row.close, volume |-> row.volume,
     daily_return |-> row.daily_return, ma7 |-> row.ma7, ma30 |-> row.ma30]

\* db.query(StockData).filter(symbol == ..., date == ...).first() over the
\* committed rows: the session does not autoflush, so the rows added earlier
\* in the same loop are not seen
Existing(symbol, date) ==
    \E i \in 1..Len(table) : table[i].symbol = symbol /\ table[i].date = date

\* the insert loop the three scripts share, up to its db.commit()
InsertLoop(rows) == SelectSeq(rows, LAMBDA r : ~Existing(r.symbol, r.date))

\* populate_mock_data: every symbol of `stocks` in turn, a commit per symbol;
\* an exception rolls the current symbol back and ends the run
populate_mock_data ==
    \E done \in 0..Len(stocks) :
        /\ table' = table \o
              Concat([i \in 1..done |->
                        InsertLoop(generate_realistic_price_data(stocks[i].symbol,
                                                                 stocks[i].base_price))])
        /\ UNCHANGED <<today, companies, queries, reply, rvars, nvars, tvars>>

\* populate_stock_data(db, symbol) of setup_database: nothing is written when
\* process_stock yields nothing or anything raises (int(nan) included)
populate_stock_data ==
    \E symbol \in {INDIAN_STOCKS[1]} :
      \E o \in SeedOutcomes(DC) :
        LET symbol_clean == StripNs(symbol)
            added == IF o.kind = "frame" /\ ~IsEmpty(o.df)
                     THEN InsertLoop([i \in 1..Len(o.df.rows) |->
                                        SeedRow(symbol_clean, o.df.rows[i])])
                     ELSE <<>>
        IN  /\ table' = table \o
                  (IF \E i \in 1..Len(added) : added[i].volume = NaN THEN <<>> ELSE added)
            /\ UNCHANGED <<today, companies, queries, reply, rvars, nvars, tvars>>

\* db.query(Company).filter(Company.symbol == symbol).first()
ExistingCompany(symbol) == \E i \in 1..Len(companies) : companies[i].symbol = symbol

\* one pass of the loop of setup_with_alphavantage: the company unless it
\* exists, then the bars
setup_with_alphavantage ==
    \E symbol \in Range(test_stocks) :
      \E o \in SeedOutcomes(AV), data \in Lookups(AV, symbol) :
        LET fetched == o.kind = "frame" /\ ~IsEmpty(o.df)
            company_info == get_company_info_av(symbol, data)
            added == IF fetched
                     THEN InsertLoop([i \in 1..Len(o.df.rows) |->
                                        SeedRow(symbol, o.df.rows[i])])
                     ELSE <<>>
        IN  /\ companies' = IF fetched /\ ~ExistingCompany(symbol)
                            THEN Append(companies, [company_info EXCEPT !.symbol = symbol])
                            ELSE companies
            /\ table' = table \o added
            /\ UNCHANGED <<today, queries, reply, rvars, nvars, tvars>>

\* the clock moves on to the next day between two runs
NextDay ==
    /\ today = SeedDay
    /\ today' = today + 1
    /\ UNCHANGED <<table, companies, queries, reply, rvars, nvars, tvars>>

\* init_db() on a fresh database
InitStore ==
    /\ ResolverIdle
    /\ NormalizerIdle
    /\ TechnicalsIdle
    /\ today = SeedDay
    /\ table = <<>>
    /\ companies = <<>>
    /\ queries = 0
    /\ reply = NoReply

NextStore ==
    \/ populate_mock_data
    \/ populate_stock_data
    \/ setup_with_alphavantage
    \/ NextDay

SpecStore == InitStore /\ [][NextStore]_vars


\* C17: the stock_data store holds at most one row per (symbol, date).
C17_OneRowPerKey ==
    \A i, j \in 1..Len(table) :
        (table[i].symbol = table[j].symbol /\ table[i].date = table[j].date) => i = j


(***************************************************************************)
(* The fetch operations of the two adapters:                               *)
(* AlphaVantageCollector.fetch_daily_data and                              *)
(* DataCollector.fetch_stock_data.  A call takes what the upstream did     *)
(* (an exception of the transport, or the decoded response) and returns.   *)
(***************************************************************************)
\* a date key pd.to_datetime cannot parse
BadDay == NaN

\* pd.to_numeric(text, errors='coerce')
to_numeric(text) ==
    CASE text = "100.0" -> 100
      [] text = "101.0" -> 101
      [] text = "102.0" -> 102
      [] text = "99.0" -> 99
      [] text = "1000" -> 1000
      [] OTHER -> NaN

\* the values of one entry of 'Time Series (Daily)': a full bar, a bar with
\* values that are no numbers, an entry with a sixth value
DailyValues ==
    { <<"100.0", "102.0", "99.0", "101.0", "1000">>,
      <<"100.0", "n/a", "99.0", "101.0", "">>,
      <<"100.0", "102.0", "99.0", "101.0", "101.0", "1000">> }

\* 'Time Series (Daily)': a JSON object, so its date keys are distinct; the
\* entries in the order of the document
TimeSeries ==
    UNION {{t \in [1..n -> [day : {1, 2, BadDay}, values : DailyValues]] :
               \A i, j \in 1..n : i # j => t[i].day # t[j].day} : n \in 0..MaxBars}

\* response.json() as far as fetch_daily_data looks at it
Json(error_message, note, series) ==
    [kind |-> "json", error_message |-> error_message, note |-> note, series |-> series]
NoSeries == [present |-> FALSE, entries |-> <<>>]
Series(t) == [present |-> TRUE, entries |-> t]

\* what requests.get / raise_for_status / response.json() may do
AlphaVantageResponses ==
    {[kind |-> "ConnectionError"], [kind |-> "HTTPError"], [kind |-> "JSONDecodeError"]}
        \cup {Json(e, n, s) : e \in BOOLEAN, n \in BOOLEAN,
                              s \in {NoSeries} \cup {Series(t) : t \in TimeSeries}}

\* lines 109-126: the frame built from the time series, or the exception
\* the construction ends with
ParseDaily(entries) ==
    IF entries = <<>> \/ \E i \in 1..Len(entries) : Len(entries[i].values) # 5
    THEN {[kind |-> "raise", exception |-> "ValueError"]}    \* df.columns = [...]
    ELSE IF \E i \in 1..Len(entries) : entries[i].day = BadDay
    THEN {[kind |-> "raise", exception |-> "ParserError"]}   \* pd.to_datetime
    ELSE {[kind |-> "frame",
           df |-> MkFrame("", RangeIndex(Len(rows)), AvColumns,
                    [i \in 1..Len(rows) |->
                        [date |-> ToDate(rows[i].date),
                         open |-> to_numeric(rows[i].values[1]),
                         high |-> to_numeric(rows[i].values[2]),
                         low |-> to_numeric(rows[i].values[3]),
                         close |-> to_numeric(rows[i].values[4]),
                         volume |-> to_numeric(rows[i].values[5])]])] :
             rows \in sort_values([i \in 1..Len(entries) |->
                                     [date |-> Stamp(entries[i].day, 0),
                                      values |-> entries[i].values]])}

\* the try block of fetch_daily_data
FetchDailyBody(response) ==
    IF response.kind # "json"
    THEN {[kind |-> "raise", exception |-> response.kind]}
    ELSE IF response.error_message THEN {NoneValue}
    ELSE IF response.note THEN {NoneValue}
    ELSE IF ~response.series.present THEN {NoneValue}
    ELSE ParseDaily(response.series.entries)

FetchCatchesRequestExceptionOnly(exception) ==
    exception \in {"ConnectionError", "HTTPError"}

\* except requests.exceptions.RequestException / except Exception
FetchCatches(exception) == TRUE

\* AlphaVantageCollector.fetch_daily_data
fetch_daily_data(response) ==
    {IF o.kind = "raise"
     THEN (IF FetchCatches(o.exception) THEN NoneValue ELSE Raised)
     ELSE IF o.kind = "frame" THEN Frame(o.df) ELSE o :
        o \in FetchDailyBody(response)}

\* what yf.Ticker(symbol).history(...) may do
YfinanceResponses ==
    {[kind |-> "Exception"]} \cup {[kind |-> "history", bars |-> b] : b \in FetchBars}

\* DataCollector.fetch_stock_data
fetch_stock_data(response) ==
    IF response.kind # "history"
    THEN {IF FetchCatches(response.kind) THEN NoneValue ELSE Raised}
    ELSE IF IsEmpty(YfFrame(response.bars)) THEN {NoneValue}
    ELSE {Frame(YfFrame(response.bars))}

\* a fetch that has been called and has not returned yet
FetchCalled(which, response) ==
    [route |-> "fetch", status |-> 0, returned |-> FALSE,
     request |-> [collector |-> which, upstream |-> response], out |-> NoneValue]

InitFetch ==
    /\ ResolverIdle
    /\ NormalizerIdle
    /\ TechnicalsIdle
    /\ today = 0
    /\ table = <<>>
    /\ companies = <<>>
    /\ queries = 0
    /\ reply \in {FetchCalled(AV, r) : r \in AlphaVantageResponses}
                    \cup {FetchCalled(DC, r) : r \in YfinanceResponses}

FetchDailyData ==
    /\ reply.route = "fetch" /\ reply.request.collector = AV /\ ~reply.returned
    /\ \E o \in fetch_daily_data(reply.request.upstream) :
          reply' = [reply EXCEPT !.returned = TRUE, !.out = o]
    /\ UNCHANGED <<today, table, companies, queries, rvars, nvars, tvars>>

FetchStockData ==
    /\ reply.route = "fetch" /\ reply.request.collector = DC /\ ~reply.returned
    /\ \E o \in fetch_stock_data(reply.request.upstream) :
          reply' = [reply EXCEPT !.returned = TRUE, !.out = o]
    /\ UNCHANGED <<today, table, companies, queries, rvars, nvars, tvars>>

NextFetch == FetchDailyData \/ FetchStockData

SpecFetch == InitFetch /\ [][NextFetch]_vars

\* the upstream of the call failed in one of the ways fetch_daily_data and
\* fetch_stock_data name
FetchFailed ==
    LET u == reply.request.upstream
    IN  IF reply.request.collector = AV
        THEN \/ u.kind # "json"
             \/ u.note \/ u.error_message \/ ~u.series.present
             \/ \E i \in 1..Len(u.series.entries) :
                   \/ Len(u.series.entries[i].values) # 5
                   \/ u.series.entries[i].day = BadDay
        ELSE u.kind # "history" \/ u.bars = <<>>

\* C23: no fetch raises across the adapter boundary; fetch_daily_data
\* returns None for a rate limit note, an error message, a missing daily
\* time series, a transport or HTTP failure and any parse error, and
\* fetch_stock_data returns None for an empty upstream result and for any
\* exception.
C23_FetchNeverRaises ==
    (reply.route = "fetch" /\ reply.returned) =>
        /\ reply.out.kind # "raise"
        /\ FetchFailed => reply.out = NoneValue
        /\ reply.out.kind \in {"none", "frame"}

\* a fetch_daily_data call whose response could not be parsed has returned
C23_ParseErrorReturned ==
    /\ reply.route = "fetch" /\ reply.returned
    /\ reply.request.collector = AV
    /\ reply.request.upstream.kind = "json"
    /\ ~reply.request.upstream.note /\ ~reply.request.upstream.error_message
    /\ reply.request.upstream.series.present
    /\ \E i \in 1..Len(reply.request.upstream.series.entries) :
          Len(reply.request.upstream.series.entries[i].values) # 5

====
